---------------------------- MODULE Spec2Model ----------------------------
(***************************************************************************)
(* Smart-Home-Assistant: the device registry (smart_home/devices), the LLM  *)
(* command interpreter (smart_home/services/llm_service.py), the Persian   *)
(* service (smart_home/services/persian_service.py) and the assistant that *)
(* joins them (smart_home/core/assistant.py).                              *)
(*                                                                         *)
(* Strings are sequences of atoms.  An atom is a TLA+ string standing for   *)
(* one character (a digit, a sign, a blank, a brace) or for one fixed piece *)
(* of text that the code only ever copies or searches for as a whole        *)
(* ("turned on", "Kitchen").  f-string interpolation is concatenation.      *)
(* Emoji are written as ASCII atoms: "[x]" is the cross mark the code uses  *)
(* as its error marker, "[ok]" the check mark, and so on.                   *)
(***************************************************************************)
EXTENDS Integers, Sequences, FiniteSets, TLC

VARIABLES
    config,      \* my_config: the location lists the registry was built from
    devices,     \* DeviceManager.devices: device_id -> device
    call,        \* the control_device()/get_status() call that has just run
    ret,         \* the string that call returned
    before,      \* the devices as they were when that call was made
    conversation_history,   \* LLMService.conversation_history
    pc,          \* where the current process_command() call stands
    command,     \* its command
    services,    \* the collaborators it was given (weather_service, news_service)
    messages,    \* the messages of the chat request it issued first
    requests,    \* the chat requests it has issued, in order
    executed,    \* the functions it has executed, in order
    reply,       \* the string it returns
    responses,   \* what the chat client answered to its requests, in order
    history_before,   \* conversation_history as the call found it
    turns,       \* every turn ever appended to the history, in order
    user_input,  \* the text SmartHomeAssistant.process_command was given
    is_persian_input,   \* its local is_persian
    english_command,    \* its local english_command
    translations,       \* the translate_text calls made for it, in order
    stages,      \* the calls it has made to its collaborators, in order
    final,       \* the string it returns
    apc,         \* where it stands
    tpc,         \* where each thread stands in the call it is making
    local,       \* the locals of each thread's call
    coarse       \* no thread has run between two steps of one statement

vars == <<config, devices, call, ret, before, conversation_history, pc, command,
          services, messages, requests, executed, reply, responses,
          history_before, turns, user_input, is_persian_input,
          english_command, translations, stages, final, apc, tpc, local,
          coarse>>

registryVars == <<call, ret, before>>
interpVars == <<conversation_history, pc, command, services, messages,
                requests, executed, reply, responses, history_before, turns>>
assistantVars == <<user_input, is_persian_input, english_command,
                   translations, stages, final, apc>>
threadVars == <<tpc, local, coarse>>

----------------------------------------------------------------------------
(* The threads that call into the one assistant object.                     *)

\* the two callers of the claims about concurrent calls
Threads == {1, 2}
NoLocal == [kind |-> "none"]

----------------------------------------------------------------------------
(* Python values that reach the code dynamically typed (JSON arguments).    *)

None == [t |-> "none"]
PyStr(s) == [t |-> "str", s |-> s]
PyInt(n) == [t |-> "int", n |-> n]

\* bool(v): None, "" and 0 are falsy, an object is truthy
Truthy(v) ==
    CASE v.t = "none" -> FALSE
      [] v.t = "str" -> v.s # <<>>
      [] v.t = "int" -> v.n # 0
      [] OTHER -> TRUE

----------------------------------------------------------------------------
(* Strings.                                                                 *)

Digits == <<"0", "1", "2", "3", "4", "5", "6", "7", "8", "9">>
Whitespace == {" ", "\n", "\t"}

IsDigit(a) == \E i \in 1..10 : Digits[i] = a
DigitValue(a) == (CHOOSE i \in 1..10 : Digits[i] = a) - 1

\* str.strip()
RECURSIVE LStrip(_)
LStrip(s) ==
    IF s # <<>> /\ Head(s) \in Whitespace THEN LStrip(Tail(s)) ELSE s

RECURSIVE RStrip(_)
RStrip(s) ==
    IF s # <<>> /\ s[Len(s)] \in Whitespace
        THEN RStrip(SubSeq(s, 1, Len(s) - 1))
        ELSE s

Strip(s) == RStrip(LStrip(s))

\* str.lower(): the atoms that hold upper-case letters, and their lower case
LowerTable ==
    [a \in {"Kitchen", "Room", "Living", "Bathroom", "KITCHEN", "ROOM",
            "RED", "Red", "HEAT", "HIGH", "NETFLIX", "Lamp", "AC", "TV",
            "Turned On"} |->
        CASE a = "Kitchen" -> "kitchen"
          [] a = "KITCHEN" -> "kitchen"
          [] a = "Room" -> "room"
          [] a = "ROOM" -> "room"
          [] a = "Living" -> "living"
          [] a = "Bathroom" -> "bathroom"
          [] a = "RED" -> "red"
          [] a = "Red" -> "red"
          [] a = "HEAT" -> "heat"
          [] a = "HIGH" -> "high"
          [] a = "NETFLIX" -> "netflix"
          [] a = "Lamp" -> "lamp"
          [] a = "AC" -> "ac"
          [] a = "TV" -> "tv"
          [] a = "Turned On" -> "turned on"]

UpperCase == <<"A", "B", "C", "D", "E", "F", "G", "H", "I", "J", "K", "L", "M",
               "N", "O", "P", "Q", "R", "S", "T", "U", "V", "W", "X", "Y", "Z">>
LowerCase == <<"a", "b", "c", "d", "e", "f", "g", "h", "i", "j", "k", "l", "m",
               "n", "o", "p", "q", "r", "s", "t", "u", "v", "w", "x", "y", "z">>

IsLetter(a) == \E i \in 1..26 : UpperCase[i] = a \/ LowerCase[i] = a

LowerAtom(a) ==
    IF a \in DOMAIN LowerTable THEN LowerTable[a]
    ELSE IF \E i \in 1..26 : UpperCase[i] = a
        THEN LowerCase[CHOOSE i \in 1..26 : UpperCase[i] = a]
    ELSE a
Lower(s) == [i \in 1..Len(s) |-> LowerAtom(s[i])]

\* str.replace(' ', '_')
ReplaceSpace(s) == [i \in 1..Len(s) |-> IF s[i] = " " THEN "_" ELSE s[i]]

\* `piece in s`, for a piece of text that is one atom
Contains(s, piece) == \E i \in 1..Len(s) : s[i] = piece

\* `sub in s`, for any string sub
IsSubstring(sub, s) ==
    \E i \in 0..(Len(s) - Len(sub)) :
        \A j \in 1..Len(sub) : s[i + j] = sub[j]

\* str.startswith
StartsWith(s, prefix) ==
    Len(s) >= Len(prefix) /\ SubSeq(s, 1, Len(prefix)) = prefix

\* the decimal value of a string of digits
RECURSIVE DigitsValue(_)
DigitsValue(s) ==
    IF s = <<>> THEN 0
    ELSE 10 * DigitsValue(SubSeq(s, 1, Len(s) - 1)) + DigitValue(s[Len(s)])

IntOfStr_sign_dropped(s) ==
    LET t == Strip(s)
        signed == t # <<>> /\ Head(t) \in {"-", "+"}
        body == IF signed THEN Tail(t) ELSE t
    IN  IF body # <<>> /\ \A i \in 1..Len(body) : IsDigit(body[i])
            THEN [ok |-> TRUE, n |-> DigitsValue(body)]
            ELSE [ok |-> FALSE, n |-> 0]

\* int(s) for a str: blanks around it are dropped, then an optional sign and
\* one or more digits; anything else raises ValueError
IntOfStr(s) ==
    LET t == Strip(s)
        signed == t # <<>> /\ Head(t) \in {"-", "+"}
        body == IF signed THEN Tail(t) ELSE t
    IN  IF body # <<>> /\ \A i \in 1..Len(body) : IsDigit(body[i])
            THEN [ok |-> TRUE,
                  n |-> IF signed /\ Head(t) = "-"
                            THEN 0 - DigitsValue(body)
                            ELSE DigitsValue(body)]
            ELSE [ok |-> FALSE, n |-> 0]

\* int(v): a str is parsed, an int is itself, None raises TypeError
PyIntOf(v) ==
    CASE v.t = "str" -> IntOfStr(v.s)
      [] v.t = "int" -> [ok |-> TRUE, n |-> v.n]
      [] v.t = "none" -> [ok |-> FALSE, n |-> 0]

\* str(n) for a natural number
RECURSIVE NatStr(_)
NatStr(n) ==
    IF n < 10 THEN <<Digits[n + 1]>>
    ELSE NatStr(n \div 10) \o <<Digits[(n % 10) + 1]>>

\* str(n)
IntStr(n) == IF n < 0 THEN <<"-">> \o NatStr(0 - n) ELSE NatStr(n)

\* str(v), as an f-string renders it
PyStrOf(v) ==
    CASE v.t = "str" -> v.s
      [] v.t = "int" -> IntStr(v.n)
      [] v.t = "none" -> <<"None">>

\* ', '.join(list of one-atom strings)
RECURSIVE JoinComma(_)
JoinComma(l) ==
    IF l = <<>> THEN <<>>
    ELSE IF Len(l) = 1 THEN <<l[1]>>
    ELSE <<l[1], ", ">> \o JoinComma(Tail(l))

Max(a, b) == IF a >= b THEN a ELSE b
Min(a, b) == IF a <= b THEN a ELSE b


----------------------------------------------------------------------------
(* Fixed pieces of text.                                                    *)

ERR == "[x]"            \* the cross mark that prefixes every error string
OK == "[ok]"            \* the check mark
PLUG == "[plug]"        \* the plug that prefixes "turned off"
GEAR == "[gear]"        \* the gear the interpreter puts before "set to"
GarbledErr == "[a^OE]"   \* U+00E2 U+0152, as air_conditioner.py spells its marker

Kitchen == <<"Kitchen">>
Room1 == <<"Room", " ", "1">>
LivingRoom == <<"Living", " ", "Room">>
LampRoom == <<"Lamp", " ", "Room">>

----------------------------------------------------------------------------
(* base_device.py: SmartHomeDevice                                          *)

\* f"{location.lower().replace(' ', '_')}_{device_type}"
DeviceId(location, device_type) ==
    ReplaceSpace(Lower(location)) \o <<"_">> \o device_type

SmartHomeDevice(name, location, device_type, initial_state) ==
    [name |-> name,
     location |-> location,
     device_type |-> device_type,
     device_id |-> DeviceId(location, <<device_type>>),
     state |-> initial_state,
     is_online |-> TRUE,
     \* self.last_updated: datetime.now() read as the number of times the
     \* attribute was assigned since the caller last took a result
     last_updated |-> 0]

\* the marker a device's own file puts before its error strings:
\* air_conditioner.py spells it U+00E2 U+0152, the cross mark's bytes read in
\* another encoding, which is not the string ERR
ErrorMark(d) == IF d.device_type = "ac" THEN GarbledErr ELSE ERR

\* base_device.py: turn_on, turn_off
Offline(d) == <<ERR, " ">> \o d.name \o <<" ", "is offline">>
\* the setters of lamp.py, air_conditioner.py, television.py
SetterOffline(d) == <<ErrorMark(d), " ">> \o d.name \o <<" ", "is offline">>
IsOff(d) ==
    <<ErrorMark(d), " ">> \o d.name \o <<" ", "is off", ". Turn it on first">>

turn_on_keeps_power(d) ==
    IF ~d.is_online THEN [dev |-> d, ret |-> Offline(d)]
    ELSE [dev |-> d,
          ret |-> <<OK, " ">> \o d.name \o <<" ", "turned on">>]

turn_on(d) ==
    IF ~d.is_online THEN [dev |-> d, ret |-> Offline(d)]
    ELSE [dev |-> [d EXCEPT !.state.power = TRUE,
                            !.last_updated = @ + 1],
          ret |-> <<OK, " ">> \o d.name \o <<" ", "turned on">>]

turn_off(d) ==
    IF ~d.is_online THEN [dev |-> d, ret |-> Offline(d)]
    ELSE [dev |-> [d EXCEPT !.state.power = FALSE,
                            !.last_updated = @ + 1],
          ret |-> <<PLUG, " ">> \o d.name \o <<" ", "turned off">>]

toggle(d) == IF d.state.power THEN turn_off(d) ELSE turn_on(d)

----------------------------------------------------------------------------
(* lamp.py: SmartLamp                                                       *)

VALID_COLORS == <<"white", "red", "blue", "green", "yellow", "purple", "orange">>

COLOR_EMOJIS(color) == <<"[">> \o color \o <<"]">>

SmartLamp(location) ==
    SmartHomeDevice(location \o <<" ", "Lamp">>, location, "lamp",
                    [power |-> FALSE, brightness |-> 100, color |-> <<"white">>])

InList_any(s, list) == Len(s) = 1

\* `x in VALID_...`
InList(s, list) == Len(s) = 1 /\ \E i \in 1..Len(list) : list[i] = s[1]

set_brightness_unclamped(d, level) ==
    IF ~d.is_online THEN [dev |-> d, ret |-> Offline(d)]
    ELSE IF ~d.state.power THEN [dev |-> d, ret |-> IsOff(d)]
    ELSE IF level = 0
        THEN [dev |-> [d EXCEPT !.state.brightness = 0, !.state.power = FALSE],
              ret |-> <<"[moon]", " ">> \o d.name
                      \o <<" ", "dimmed to 0% (", "turned off", ")">>]
        ELSE [dev |-> [d EXCEPT !.state.brightness = level,
                                !.last_updated = @ + 1],
              ret |-> <<"[bulb]", " ">> \o d.name
                      \o <<" ", "brightness ", "set to", " ">>
                      \o IntStr(level) \o <<"%">>]

set_brightness(d, level) ==
    IF ~d.is_online THEN [dev |-> d, ret |-> Offline(d)]
    ELSE IF ~d.state.power THEN [dev |-> d, ret |-> IsOff(d)]
    ELSE LET l == Max(0, Min(100, level))
         IN  IF l = 0
                THEN [dev |-> [d EXCEPT !.state.brightness = 0,
                                        !.state.power = FALSE],
                      ret |-> <<"[moon]", " ">> \o d.name
                              \o <<" ", "dimmed to 0% (", "turned off", ")">>]
                ELSE [dev |-> [d EXCEPT !.state.brightness = l,
                                        !.last_updated = @ + 1],
                      ret |-> <<"[bulb]", " ">> \o d.name
                              \o <<" ", "brightness ", "set to", " ">>
                              \o IntStr(l) \o <<"%">>]

set_color_stores_first(d, color) ==
    IF ~d.is_online THEN [dev |-> d, ret |-> Offline(d)]
    ELSE IF ~d.state.power THEN [dev |-> d, ret |-> IsOff(d)]
    ELSE LET color_normalized == Strip(Lower(color))
         IN  IF InList(color_normalized, VALID_COLORS)
                THEN [dev |-> [d EXCEPT !.state.color = color_normalized,
                                        !.last_updated = @ + 1],
                      ret |-> COLOR_EMOJIS(color_normalized) \o <<" ">> \o d.name
                              \o <<" ", "color changed to", " ">>
                              \o color_normalized]
                ELSE [dev |-> [d EXCEPT !.state.color = color_normalized],
                      ret |-> <<ERR, " ", "Invalid color. Available: ">>
                              \o JoinComma(VALID_COLORS)]

set_color(d, color) ==
    IF ~d.is_online THEN [dev |-> d, ret |-> Offline(d)]
    ELSE IF ~d.state.power THEN [dev |-> d, ret |-> IsOff(d)]
    ELSE LET color_normalized == Strip(Lower(color))
         IN  IF InList(color_normalized, VALID_COLORS)
                THEN [dev |-> [d EXCEPT !.state.color = color_normalized,
                                        !.last_updated = @ + 1],
                      ret |-> COLOR_EMOJIS(color_normalized) \o <<" ">> \o d.name
                              \o <<" ", "color changed to", " ">>
                              \o color_normalized]
                ELSE [dev |-> d,
                      ret |-> <<ERR, " ", "Invalid color. Available: ">>
                              \o JoinComma(VALID_COLORS)]

lamp_get_status(d) ==
    IF ~d.is_online
        THEN d.name \o <<" (">> \o d.location \o <<"): ", "OFFLINE">>
    ELSE IF d.state.power
        THEN d.name \o <<" (">> \o d.location \o <<"): ", "ON", " - ">>
             \o IntStr(d.state.brightness) \o <<"% brightness ">>
             \o COLOR_EMOJIS(d.state.color) \o <<" ">> \o d.state.color
             \o <<" color">>
    ELSE d.name \o <<" (">> \o d.location \o <<"): ", "OFF">>

----------------------------------------------------------------------------
(* air_conditioner.py: SmartAirConditioner                                  *)

MIN_TEMPERATURE == 16
MAX_TEMPERATURE == 30
VALID_MODES == <<"cool", "heat", "fan", "auto", "dry">>
VALID_FAN_SPEEDS == <<"low", "medium", "high", "auto">>

SmartAirConditioner(location) ==
    SmartHomeDevice(location \o <<" ", "AC">>, location, "ac",
                    [power |-> FALSE, temperature |-> 22, mode |-> <<"cool">>,
                     fan_speed |-> <<"medium">>])

set_temperature_no_power_check(d, temp) ==
    IF ~d.is_online THEN [dev |-> d, ret |-> SetterOffline(d)]
    ELSE LET t == Max(MIN_TEMPERATURE, Min(MAX_TEMPERATURE, temp))
         IN  [dev |-> [d EXCEPT !.state.temperature = t,
                                !.last_updated = @ + 1],
              ret |-> <<"[thermo]", " ">> \o d.name
                      \o <<" ", "temperature ", "set to", " ">>
                      \o IntStr(t) \o <<"C">>]

set_temperature(d, temp) ==
    IF ~d.is_online THEN [dev |-> d, ret |-> SetterOffline(d)]
    ELSE IF ~d.state.power THEN [dev |-> d, ret |-> IsOff(d)]
    ELSE LET t == Max(MIN_TEMPERATURE, Min(MAX_TEMPERATURE, temp))
         IN  [dev |-> [d EXCEPT !.state.temperature = t,
                                !.last_updated = @ + 1],
              ret |-> <<"[thermo]", " ">> \o d.name
                      \o <<" ", "temperature ", "set to", " ">>
                      \o IntStr(t) \o <<"C">>]

set_mode(d, mode) ==
    IF ~d.is_online THEN [dev |-> d, ret |-> SetterOffline(d)]
    ELSE IF ~d.state.power THEN [dev |-> d, ret |-> IsOff(d)]
    ELSE LET mode_normalized == Strip(Lower(mode))
         IN  IF InList(mode_normalized, VALID_MODES)
                THEN [dev |-> [d EXCEPT !.state.mode = mode_normalized,
                                        !.last_updated = @ + 1],
                      ret |-> <<"[mode]", " ">> \o d.name
                              \o <<" ", "mode ", "set to", " ">>
                              \o mode_normalized]
                ELSE [dev |-> d,
                      ret |-> <<GarbledErr, " ", "Invalid mode. Available: ">>
                              \o JoinComma(VALID_MODES)]

set_fan_speed(d, speed) ==
    IF ~d.is_online THEN [dev |-> d, ret |-> SetterOffline(d)]
    ELSE IF ~d.state.power THEN [dev |-> d, ret |-> IsOff(d)]
    ELSE LET speed_normalized == Strip(Lower(speed))
         IN  IF InList(speed_normalized, VALID_FAN_SPEEDS)
                THEN [dev |-> [d EXCEPT !.state.fan_speed = speed_normalized,
                                        !.last_updated = @ + 1],
                      ret |-> <<"[wind]", " ">> \o d.name
                              \o <<" ", "fan speed ", "set to", " ">>
                              \o speed_normalized]
                ELSE [dev |-> d,
                      ret |-> <<GarbledErr, " ", "Invalid fan speed. Available: ">>
                              \o JoinComma(VALID_FAN_SPEEDS)]

ac_get_status(d) ==
    IF ~d.is_online
        THEN d.name \o <<" (">> \o d.location \o <<"): ", "OFFLINE">>
    ELSE IF d.state.power
        THEN d.name \o <<" (">> \o d.location \o <<"): ", "ON", " - ">>
             \o IntStr(d.state.temperature) \o <<"C, ">>
             \o d.state.mode \o <<" mode ", "[mode]", ", ">>
             \o d.state.fan_speed \o <<" fan">>
    ELSE d.name \o <<" (">> \o d.location \o <<"): ", "OFF">>

----------------------------------------------------------------------------
(* television.py: SmartTelevision                                           *)

MIN_CHANNEL == 1
MAX_CHANNEL == 999
MIN_VOLUME == 0
MAX_VOLUME == 100
VALID_INPUTS ==
    <<"hdmi1", "hdmi2", "hdmi3", "usb", "cable", "antenna", "netflix", "youtube">>

SmartTelevision(location) ==
    SmartHomeDevice(location \o <<" ", "TV">>, location, "tv",
                    [power |-> FALSE, channel |-> 1, volume |-> 50,
                     input |-> <<"hdmi1">>])

set_channel(d, channel) ==
    IF ~d.is_online THEN [dev |-> d, ret |-> Offline(d)]
    ELSE IF ~d.state.power THEN [dev |-> d, ret |-> IsOff(d)]
    ELSE LET c == Max(MIN_CHANNEL, Min(MAX_CHANNEL, channel))
         IN  [dev |-> [d EXCEPT !.state.channel = c,
                                !.last_updated = @ + 1],
              ret |-> <<"[tv]", " ">> \o d.name
                      \o <<" ", "channel changed to", " ">> \o IntStr(c)]

VolumeEmoji(volume) ==
    IF volume = 0 THEN "[mute]"
    ELSE IF volume <= 30 THEN "[vol1]"
    ELSE IF volume <= 70 THEN "[vol2]"
    ELSE "[vol3]"

set_volume(d, volume) ==
    IF ~d.is_online THEN [dev |-> d, ret |-> Offline(d)]
    ELSE IF ~d.state.power THEN [dev |-> d, ret |-> IsOff(d)]
    ELSE LET v == Max(MIN_VOLUME, Min(MAX_VOLUME, volume))
         IN  [dev |-> [d EXCEPT !.state.volume = v,
                                !.last_updated = @ + 1],
              ret |-> <<VolumeEmoji(v), " ">> \o d.name
                      \o <<" ", "volume ", "set to", " ">> \o IntStr(v)]

set_input(d, input_source) ==
    IF ~d.is_online THEN [dev |-> d, ret |-> Offline(d)]
    ELSE IF ~d.state.power THEN [dev |-> d, ret |-> IsOff(d)]
    ELSE LET input_normalized == Strip(Lower(input_source))
         IN  IF InList(input_normalized, VALID_INPUTS)
                THEN [dev |-> [d EXCEPT !.state.input = input_normalized,
                                        !.last_updated = @ + 1],
                      ret |-> <<"[in]", " ">> \o d.name
                              \o <<" ", "input changed to", " ">>
                              \o input_normalized]
                ELSE [dev |-> d,
                      ret |-> <<ERR, " ", "Invalid input. Available: ">>
                              \o JoinComma(VALID_INPUTS)]

tv_get_status(d) ==
    IF ~d.is_online
        THEN d.name \o <<" (">> \o d.location \o <<"): ", "OFFLINE">>
    ELSE IF d.state.power
        THEN d.name \o <<" (">> \o d.location \o <<"): ", "ON", " - ">>
             \o <<"Channel ">> \o IntStr(d.state.channel) \o <<", Volume ">>
             \o IntStr(d.state.volume) \o <<" ", VolumeEmoji(d.state.volume)>>
             \o <<", Input: ">> \o d.state.input
    ELSE d.name \o <<" (">> \o d.location \o <<"): ", "OFF">>

\* device.get_status(), dispatched on the device's class
device_get_status(d) ==
    CASE d.device_type = "lamp" -> lamp_get_status(d)
      [] d.device_type = "ac" -> ac_get_status(d)
      [] d.device_type = "tv" -> tv_get_status(d)

----------------------------------------------------------------------------
(* device_manager.py: DeviceManager                                         *)

RECURSIVE MapIds(_, _)
MapIds(locations, device_type) ==
    IF locations = <<>> THEN <<>>
    ELSE <<DeviceId(Head(locations), <<device_type>>)>>
         \o MapIds(Tail(locations), device_type)

\* the keys of self.devices in insertion order, which is the order every
\* loop over the dict visits them in
DeviceOrder(cfg) ==
    MapIds(cfg.lamps, "lamp") \o MapIds(cfg.acs, "ac") \o MapIds(cfg.tvs, "tv")

Range(seq) == {seq[i] : i \in 1..Len(seq)}

create_devices(cfg) ==
    LET made == [i \in 1..Len(cfg.lamps) |-> SmartLamp(cfg.lamps[i])]
                \o [i \in 1..Len(cfg.acs) |-> SmartAirConditioner(cfg.acs[i])]
                \o [i \in 1..Len(cfg.tvs) |-> SmartTelevision(cfg.tvs[i])]
    IN  [id \in Range(DeviceOrder(cfg)) |->
            LET last == CHOOSE i \in 1..Len(made) :
                            /\ made[i].device_id = id
                            /\ \A j \in (i + 1)..Len(made) : made[j].device_id # id
            IN  made[last]]

get_device_by_pattern_case_sensitive(devs, device_type, location) ==
    LET device_id == ReplaceSpace(location) \o <<"_">> \o device_type
    IN  IF device_id \in DOMAIN devs
            THEN [found |-> TRUE, id |-> device_id]
            ELSE [found |-> FALSE, id |-> <<>>]

\* self.devices.get(device_id): None when there is no such key
get_device_by_pattern(devs, device_type, location) ==
    LET device_id == DeviceId(location, device_type)
    IN  IF device_id \in DOMAIN devs
            THEN [found |-> TRUE, id |-> device_id]
            ELSE [found |-> FALSE, id |-> <<>>]

RECURSIVE FilterIds(_, _)
FilterIds(ids, device_type) ==
    IF ids = <<>> THEN <<>>
    ELSE (IF Contains(Head(ids), device_type) THEN <<Head(ids)>> ELSE <<>>)
         \o FilterIds(Tail(ids), device_type)

\* the ids of [device for device_id, device in self.devices.items()
\*             if device_type in device_id]
get_devices_by_type(cfg, device_type) == FilterIds(DeviceOrder(cfg), device_type)

InvalidValue(action, value) ==
    <<ERR, " ", "Invalid value '">> \o PyStrOf(value)
    \o <<"' for action '">> \o action \o <<"'">>

ErrorExecuting(action) ==
    <<ERR, " ", "Error executing ">> \o action
    \o <<": ", "'int' object has no attribute 'lower'">>

NumericAction_unchecked(d, action, value, r) == r

\* device.set_x(int(value)): int() runs before the call and may raise
NumericAction(d, action, value, r) ==
    IF PyIntOf(value).ok THEN r ELSE [dev |-> d, ret |-> InvalidValue(action, value)]

\* device.set_x(value) for a setter that calls value.lower() after its
\* online and power checks
TextAction(d, action, value, r) ==
    IF value.t = "str" THEN r
    ELSE IF ~d.is_online THEN [dev |-> d, ret |-> SetterOffline(d)]
    ELSE IF ~d.state.power THEN [dev |-> d, ret |-> IsOff(d)]
    ELSE [dev |-> d, ret |-> ErrorExecuting(action)]

StrOf(v) == IF v.t = "str" THEN v.s ELSE <<>>

execute_device_action(d, action, value) ==
    IF action = <<"on">> THEN turn_on(d)
    ELSE IF action = <<"off">> THEN turn_off(d)
    ELSE IF action = <<"toggle">> THEN toggle(d)
    ELSE IF action = <<"brightness">> /\ d.device_type = "lamp" THEN
        IF Truthy(value)
            THEN NumericAction(d, action, value,
                               set_brightness(d, PyIntOf(value).n))
            ELSE [dev |-> d,
                  ret |-> <<ERR, " ", "Please specify brightness level (0-100)">>]
    ELSE IF action = <<"color">> /\ d.device_type = "lamp" THEN
        IF Truthy(value)
            THEN TextAction(d, action, value, set_color(d, StrOf(value)))
            ELSE [dev |-> d, ret |-> <<ERR, " ", "Please specify a color">>]
    ELSE IF action = <<"temperature">> /\ d.device_type = "ac" THEN
        IF Truthy(value)
            THEN NumericAction(d, action, value,
                               set_temperature(d, PyIntOf(value).n))
            ELSE [dev |-> d,
                  ret |-> <<ERR, " ", "Please specify temperature (16-30C)">>]
    ELSE IF action = <<"mode">> /\ d.device_type = "ac" THEN
        IF Truthy(value)
            THEN TextAction(d, action, value, set_mode(d, StrOf(value)))
            ELSE [dev |-> d, ret |-> <<ERR, " ", "Please specify mode">>]
    ELSE IF action = <<"fan_speed">> /\ d.device_type = "ac" THEN
        IF Truthy(value)
            THEN TextAction(d, action, value, set_fan_speed(d, StrOf(value)))
            ELSE [dev |-> d, ret |-> <<ERR, " ", "Please specify fan speed">>]
    ELSE IF action = <<"channel">> /\ d.device_type = "tv" THEN
        IF Truthy(value)
            THEN NumericAction(d, action, value,
                               set_channel(d, PyIntOf(value).n))
            ELSE [dev |-> d, ret |-> <<ERR, " ", "Please specify channel number">>]
    ELSE IF action = <<"volume">> /\ d.device_type = "tv" THEN
        IF Truthy(value)
            THEN NumericAction(d, action, value,
                               set_volume(d, PyIntOf(value).n))
            ELSE [dev |-> d, ret |-> <<ERR, " ", "Please specify volume level">>]
    ELSE IF action = <<"input">> /\ d.device_type = "tv" THEN
        IF Truthy(value)
            THEN TextAction(d, action, value, set_input(d, StrOf(value)))
            ELSE [dev |-> d, ret |-> <<ERR, " ", "Please specify input">>]
    ELSE [dev |-> d,
          ret |-> <<ERR, " ", "Action '">> \o action
                  \o <<"' not supported for ", d.device_type>>]

\* "\n".join(results)
RECURSIVE JoinLines(_)
JoinLines(results) ==
    IF results = <<>> THEN <<>>
    ELSE IF Len(results) = 1 THEN results[1]
    ELSE results[1] \o <<"\n">> \o JoinLines(Tail(results))

\* the loop of _control_all_lamps over the lamps still to visit
RECURSIVE all_lamps_loop(_, _, _, _, _)
all_lamps_loop(devs, ids, action, value, results) ==
    IF ids = <<>> THEN [devs |-> devs, results |-> results]
    ELSE LET r == execute_device_action(devs[Head(ids)], action, value)
         IN  all_lamps_loop(
                 [devs EXCEPT ![Head(ids)] = r.dev], Tail(ids), action, value,
                 IF StartsWith(r.ret, <<ERR>>) THEN results
                 ELSE Append(results, <<"  * ">> \o r.ret))

control_all_lamps(devs, cfg, action, value) ==
    LET lamp_devices == get_devices_by_type(cfg, "lamp")
    IN  IF lamp_devices = <<>>
            THEN [devs |-> devs, ret |-> <<ERR, " ", "No lamps found">>]
        ELSE LET done == all_lamps_loop(devs, lamp_devices, action, value, <<>>)
             IN  [devs |-> done.devs,
                  ret |-> IF done.results # <<>>
                            THEN <<"[bulb]", " ", "All lamps:", "\n">>
                                 \o JoinLines(done.results)
                            ELSE <<ERR, " ", "No lamps could be controlled">>]

\* the loop of _control_all_devices over the devices still to visit
RECURSIVE all_devices_loop(_, _, _)
all_devices_loop(devs, ids, results) ==
    IF ids = <<>> THEN [devs |-> devs, results |-> results]
    ELSE LET r == turn_off(devs[Head(ids)])
         IN  all_devices_loop(
                 [devs EXCEPT ![Head(ids)] = r.dev], Tail(ids),
                 IF StartsWith(r.ret, <<ERR>>) THEN results
                 ELSE Append(results, <<"  * ">> \o r.ret))

control_all_devices_any_action(devs, cfg, action) ==
    LET done == all_devices_loop(devs, DeviceOrder(cfg), <<>>)
    IN  [devs |-> done.devs,
         ret |-> <<PLUG, " ", "All devices ", "turned off", ":", "\n">>
                 \o JoinLines(done.results)]

control_all_devices(devs, cfg, action) ==
    IF action # <<"off">>
        THEN [devs |-> devs,
              ret |-> <<ERR, " ", "Only 'off' action is supported for all devices">>]
    ELSE LET done == all_devices_loop(devs, DeviceOrder(cfg), <<>>)
         IN  [devs |-> done.devs,
              ret |-> <<PLUG, " ", "All devices ", "turned off", ":", "\n">>
                      \o JoinLines(done.results)]

control_device(devs, cfg, device_type, action, location, value) ==
    IF device_type = <<"all_lamps">> THEN control_all_lamps(devs, cfg, action, value)
    ELSE IF device_type = <<"all_devices">> THEN control_all_devices(devs, cfg, action)
    ELSE IF ~Truthy(location)
        THEN [devs |-> devs,
              ret |-> <<ERR, " ", "Please specify the location for the device">>]
    ELSE IF location.t # "str"
        THEN [devs |-> devs,
              ret |-> <<ERR, " ", "Error controlling device: ",
                        "'int' object has no attribute 'lower'">>]
    ELSE LET device == get_device_by_pattern(devs, device_type, location.s)
         IN  IF ~device.found
                THEN [devs |-> devs,
                      ret |-> <<ERR, " ", "Device not found: ">> \o device_type
                              \o <<" in ">> \o location.s]
                ELSE LET r == execute_device_action(devs[device.id], action, value)
                     IN  [devs |-> [devs EXCEPT ![device.id] = r.dev],
                          ret |-> r.ret]

\* the lines get_status("all") adds for one group of devices
RECURSIVE StatusLines(_, _)
StatusLines(devs, ids) ==
    IF ids = <<>> THEN <<>>
    ELSE <<"\n", "  * ">> \o device_get_status(devs[Head(ids)])
         \o StatusLines(devs, Tail(ids))

StatusGroup(devs, ids, header) ==
    IF ids = <<>> THEN <<>> ELSE <<"\n", "\n", header>> \o StatusLines(devs, ids)

\* the loop of get_status over the devices still to visit
RECURSIVE find_device_loop(_, _, _)
find_device_loop(devs, ids, device_name) ==
    IF ids = <<>>
        THEN <<ERR, " ", "Device '">> \o device_name \o <<"' not found">>
    ELSE IF \/ IsSubstring(Lower(device_name), Head(ids))
            \/ IsSubstring(Lower(device_name), Lower(devs[Head(ids)].name))
        THEN <<"[chart]", " ">> \o device_get_status(devs[Head(ids)])
    ELSE find_device_loop(devs, Tail(ids), device_name)

get_status(devs, cfg, device_name) ==
    IF device_name = <<"all">>
        THEN <<"[chart]", " ", "Smart Home Status:">>
             \o StatusGroup(devs, get_devices_by_type(cfg, "lamp"), "Lamps:")
             \o StatusGroup(devs, get_devices_by_type(cfg, "ac"), "Air Conditioners:")
             \o StatusGroup(devs, get_devices_by_type(cfg, "tv"), "Televisions:")
        ELSE find_device_loop(devs, DeviceOrder(cfg), device_name)

----------------------------------------------------------------------------
(* The registry's callers: control_device() and get_status() with arguments  *)
(* drawn from small sets.                                                    *)

\* my_config's location lists: the registry is built once from them
Configs ==
    {[lamps |-> <<Kitchen, Room1>>, acs |-> <<>>, tvs |-> <<>>],
     [lamps |-> <<Kitchen>>, acs |-> <<Kitchen>>, tvs |-> <<>>],
     [lamps |-> <<>>, acs |-> <<>>, tvs |-> <<LivingRoom>>],
     [lamps |-> <<Kitchen>>, acs |-> <<LampRoom>>, tvs |-> <<>>]}

\* the (device_type, location) pairs a caller passes: each device of the
\* configurations in some letter case, a location with no such device, no
\* location, an empty location, the two group types and an unknown type
TargetArgs ==
    {<<<<"lamp">>, PyStr(<<"kitchen">>)>>,
     <<<<"lamp">>, PyStr(<<"ROOM", " ", "1">>)>>,
     <<<<"ac">>, PyStr(<<"Kitchen">>)>>,
     <<<<"tv">>, PyStr(<<"living", " ", "room">>)>>,
     <<<<"lamp">>, PyStr(<<"garage">>)>>,
     <<<<"lamp">>, None>>,
     <<<<"ac">>, PyStr(<<>>)>>,
     <<<<"all_lamps">>, None>>,
     <<<<"all_devices">>, PyStr(<<"kitchen">>)>>,
     <<<<"fridge">>, PyStr(<<"kitchen">>)>>}

PowerActions == {<<"on">>, <<"off">>, <<"toggle">>}
NumericActions == {<<"brightness">>, <<"temperature">>, <<"channel">>, <<"volume">>}

\* the (action, value) pairs a caller passes
ActionValueArgs ==
    (PowerActions \X {None})
    \cup ({<<"brightness">>} \X
            {None, PyStr(<<"0">>), PyStr(<<"-", "5">>), PyStr(<<" ", "2", "2", " ">>),
             PyStr(<<"1", "0", "0", "0">>), PyStr(<<"a", "b", "c">>), PyInt(0)})
    \cup ({<<"temperature">>} \X
            {PyStr(<<>>), PyStr(<<"5">>), PyStr(<<"2", "2">>), PyStr(<<"3", "5">>),
             PyStr(<<"2", "2", ".", "5">>)})
    \cup ({<<"channel">>} \X
            {PyStr(<<"0">>), PyStr(<<"+", "2", "2">>), PyStr(<<"1", "0", "0", "0">>)})
    \cup ({<<"volume">>} \X
            {PyStr(<<"-", "5">>), PyInt(22), PyStr(<<"1", "0", "1">>)})
    \cup ({<<"color">>} \X
            {None, PyStr(<<" ", "RED", " ">>), PyStr(<<"pink">>), PyInt(5)})
    \cup ({<<"mode">>} \X {PyStr(<<"HEAT">>), PyStr(<<"turbo">>)})
    \cup ({<<"fan_speed">>} \X {PyStr(<<"high">>), PyStr(<<"turbo">>)})
    \cup ({<<"input">>} \X {PyStr(<<"netflix">>), PyStr(<<"hdmi", "4">>)})
    \cup {<<<<"dance">>, None>>}

DeviceNameArgs == {<<"all">>, <<"kitchen">>, <<"Lamp">>, <<"garage">>, <<>>}

NoCall == [op |-> "none"]

\* only the advance of last_updated during a call is observed: the count
\* restarts when the caller has taken the result
Rebase(devs) == [id \in DOMAIN devs |-> [devs[id] EXCEPT !.last_updated = 0]]
Idle == call = NoCall /\ pc = "AWAITING_COMMAND"

\* DeviceManager.control_device(device_type, action, location, value)
ControlDevice(device_type, action, location, value) ==
    /\ Idle
    /\ LET r == control_device(devices, config, device_type, action, location, value)
       IN  /\ devices' = r.devs
           /\ ret' = r.ret
    /\ call' = [op |-> "control_device", device_type |-> device_type,
                action |-> action, location |-> location, value |-> value]
    /\ before' = devices
    /\ UNCHANGED <<config, threadVars, interpVars, assistantVars>>

\* DeviceManager.get_status(device_name)
GetStatus(device_name) ==
    /\ Idle
    /\ ret' = get_status(devices, config, device_name)
    /\ call' = [op |-> "get_status", device_name |-> device_name]
    /\ before' = devices
    /\ UNCHANGED <<config, threadVars, devices, interpVars, assistantVars>>

\* SmartHomeAssistant.shutdown
Shutdown == ControlDevice(<<"all_devices">>, <<"off">>, None, None)

\* the caller takes the returned string
Return ==
    /\ call # NoCall
    /\ call' = NoCall
    /\ ret' = <<>>
    /\ devices' = Rebase(devices)
    /\ before' = Rebase(devices)
    /\ UNCHANGED <<config, threadVars, interpVars, assistantVars>>

Init ==
    /\ config \in Configs
    /\ devices = create_devices(config)
    /\ call = NoCall
    /\ ret = <<>>
    /\ before = devices
    /\ conversation_history = <<>>
    /\ pc = "AWAITING_COMMAND"
    /\ command = <<>>
    /\ services = [weather_service |-> "none", news_service |-> "none"]
    /\ messages = <<>>
    /\ requests = <<>>
    /\ executed = <<>>
    /\ reply = <<>>
    /\ responses = <<>>
    /\ history_before = <<>>
    /\ turns = <<>>
    /\ user_input = <<>>
    /\ is_persian_input = FALSE
    /\ english_command = <<>>
    /\ translations = <<>>
    /\ stages = <<>>
    /\ final = <<>>
    /\ apc = "IDLE"
    /\ tpc = [t \in Threads |-> "idle"]
    /\ local = [t \in Threads |-> NoLocal]
    /\ coarse = TRUE

NextRegistry ==
    \/ \E target \in TargetArgs, av \in ActionValueArgs :
            ControlDevice(target[1], av[1], target[2], av[2])
    \/ \E device_name \in DeviceNameArgs : GetStatus(device_name)
    \/ Shutdown
    \/ Return

SpecRegistry == Init /\ [][NextRegistry]_vars

----------------------------------------------------------------------------
(* llm_service.py: LLMService                                               *)

HistoryCap == 20        \* "Keep only last 20 conversations"
ContextEntries == 6     \* self.conversation_history[-6:]

\* seq[-n:]
LastN(seq, n) == SubSeq(seq, Max(1, Len(seq) - n + 1), Len(seq))

SystemPrompt == <<"You are a helpful smart home assistant ...">>

\* the two messages each history entry contributes
RECURSIVE ContextMessages(_)
ContextMessages(entries) ==
    IF entries = <<>> THEN <<>>
    ELSE <<[role |-> "user", content |-> Head(entries).user],
           [role |-> "assistant", content |-> Head(entries).assistant]>>
         \o ContextMessages(Tail(entries))

\* the prior-context messages of a request
HistoryContext(history) == ContextMessages(LastN(history, ContextEntries))

\* messages, as process_command builds it before the first request
BuildMessages(history, cmd) ==
    <<[role |-> "system", content |-> SystemPrompt]>>
    \o HistoryContext(history)
    \o <<[role |-> "user", content |-> cmd]>>

\* what the chat client hands back: an exception, or a message with its
\* content (a str or None) and its function_call (an object or None)
Raises(text) == [kind |-> "raise", text |-> text]
Message(content, function_call) ==
    [kind |-> "message", content |-> content, function_call |-> function_call]
FunctionCall(name, arguments) ==
    [t |-> "call", name |-> name, arguments |-> arguments]

\* json.loads.  A JSON object is "{", one atom that holds all its members, "}";
\* blanks between them are skipped.  Anything that is neither such an object,
\* the empty object nor another JSON value raises JSONDecodeError.
JsonMembers ==
    [b \in {"\"device_type\":\"lamp\",\"action\":\"on\",\"location\":\"kitchen\"",
            "\"device_type\":\"lamp\",\"action\":\"off\",\"location\":\"kitchen\"",
            "\"device_type\":\"ac\",\"action\":\"temperature\",\"location\":\"kitchen\",\"value\":\"22\"",
            "\"device_type\":\"lamp\"",
            "\"device_type\":\"lamp\",\"action\":\"on\",\"room\":\"kitchen\"",
            "\"city\":\"Shiraz\"",
            "\"device\":\"kitchen\""} |->
        CASE b = "\"device_type\":\"lamp\",\"action\":\"on\",\"location\":\"kitchen\"" ->
                [device_type |-> PyStr(<<"lamp">>), action |-> PyStr(<<"on">>),
                 location |-> PyStr(<<"kitchen">>)]
          [] b = "\"device_type\":\"lamp\",\"action\":\"off\",\"location\":\"kitchen\"" ->
                [device_type |-> PyStr(<<"lamp">>), action |-> PyStr(<<"off">>),
                 location |-> PyStr(<<"kitchen">>)]
          [] b = "\"device_type\":\"ac\",\"action\":\"temperature\",\"location\":\"kitchen\",\"value\":\"22\"" ->
                [device_type |-> PyStr(<<"ac">>), action |-> PyStr(<<"temperature">>),
                 location |-> PyStr(<<"kitchen">>), value |-> PyStr(<<"2", "2">>)]
          [] b = "\"device_type\":\"lamp\"" ->
                [device_type |-> PyStr(<<"lamp">>)]
          [] b = "\"device_type\":\"lamp\",\"action\":\"on\",\"room\":\"kitchen\"" ->
                [device_type |-> PyStr(<<"lamp">>), action |-> PyStr(<<"on">>),
                 room |-> PyStr(<<"kitchen">>)]
          [] b = "\"city\":\"Shiraz\"" -> [city |-> PyStr(<<"Shiraz">>)]
          [] b = "\"device\":\"kitchen\"" -> [device |-> PyStr(<<"kitchen">>)]]

EmptyDict == <<>>
JsonScalars == {<<"null">>, <<"4", "2">>, <<"[", "]">>}

\* str(e) of the JSONDecodeError for an object whose first member has no
\* quoted name
JSONDecodeError ==
    <<"Expecting property name enclosed in double quotes: line 1 column 2 (char 1)">>

SelectNonBlank(s) == SelectSeq(s, LAMBDA a : a \notin Whitespace)

JsonLoads(text) ==
    LET t == SelectNonBlank(text)
    IN  IF Len(t) = 3 /\ t[1] = "{" /\ t[3] = "}" /\ t[2] \in DOMAIN JsonMembers
            THEN [ok |-> TRUE, dict |-> TRUE, val |-> JsonMembers[t[2]]]
        ELSE IF t = <<"{", "}">>
            THEN [ok |-> TRUE, dict |-> TRUE, val |-> EmptyDict]
        ELSE IF t \in JsonScalars
            THEN [ok |-> TRUE, dict |-> FALSE, val |-> EmptyDict]
        ELSE [ok |-> FALSE, dict |-> FALSE, val |-> EmptyDict]

\* dict.get(key, default)
DictGet(d, key, default) == IF key \in DOMAIN d THEN d[key] ELSE default

\* the collaborators: absent ("none"), or a stub that answers with a report
\* ("ok") or with an error string ("fails")
ServiceStubs == {"none", "ok", "fails"}

WeatherResult(stub, city) ==
    IF stub = "ok"
        THEN <<"[sun]", " ", "Weather in ">> \o PyStrOf(city) \o <<": ", "25C">>
        ELSE <<ERR, " ", "Weather request timed out. Please try again">>

NewsResult(stub, category) ==
    IF stub = "ok"
        THEN <<"[news]", " ", "Latest ">> \o PyStrOf(category) \o <<" news: ", "..." >>
        ELSE <<ERR, " ", "News request timed out. Please try again">>

CurrentTime == <<"[clock]", " ", "Current time: ", "Friday, November 06, 2026 at 01:00 AM">>

ControlKeywords == {"device_type", "action", "location", "value"}

ExecError_unmarked(function_name, text) ==
    <<"Error executing ">> \o function_name \o <<": ">> \o text

\* the string of the except clause of _execute_function
ExecError(function_name, text) ==
    <<ERR, " ", "Error executing ">> \o function_name \o <<": ">> \o text

weather_branch_always_calls(args, svc) ==
    WeatherResult(svc.weather_service, DictGet(args.val, "city", PyStr(<<"Tehran">>)))

\* the get_weather branch of _execute_function
weather_branch(args, svc) ==
    IF svc.weather_service # "none"
        THEN WeatherResult(svc.weather_service,
                           DictGet(args.val, "city", PyStr(<<"Tehran">>)))
        ELSE <<ERR, " ", "Weather service not available">>

\* the get_news branch of _execute_function
news_branch(args, svc) ==
    IF svc.news_service # "none"
        THEN NewsResult(svc.news_service,
                        DictGet(args.val, "category", PyStr(<<"technology">>)))
        ELSE <<ERR, " ", "News service not available">>

\* _execute_function(function_name, args, device_manager, weather_service,
\* news_service): args is what json.loads returned
execute_function(function_name, args, devs, cfg, svc) ==
    IF function_name = <<"control_device">> THEN
        IF ~args.dict
            THEN [devs |-> devs,
                  ret |-> ExecError(function_name,
                            <<"argument after ** must be a mapping">>)]
        ELSE IF ~(DOMAIN args.val \subseteq ControlKeywords)
            THEN [devs |-> devs,
                  ret |-> ExecError(function_name,
                            <<"control_device() got an unexpected keyword argument">>)]
        ELSE IF ~({"device_type", "action"} \subseteq DOMAIN args.val)
            THEN [devs |-> devs,
                  ret |-> ExecError(function_name,
                            <<"control_device() missing required positional argument">>)]
        ELSE control_device(devs, cfg,
                            PyStrOf(args.val["device_type"]),
                            PyStrOf(args.val["action"]),
                            DictGet(args.val, "location", None),
                            DictGet(args.val, "value", None))
    ELSE IF function_name \in {<<"get_weather">>, <<"get_news">>,
                               <<"get_device_status">>} /\ ~args.dict
        THEN [devs |-> devs,
              ret |-> ExecError(function_name, <<"object has no attribute 'get'">>)]
    ELSE IF function_name = <<"get_weather">>
        THEN [devs |-> devs, ret |-> weather_branch(args, svc)]
    ELSE IF function_name = <<"get_news">>
        THEN [devs |-> devs, ret |-> news_branch(args, svc)]
    ELSE IF function_name = <<"get_time">>
        THEN [devs |-> devs, ret |-> CurrentTime]
    ELSE IF function_name = <<"get_device_status">> THEN
        LET device == DictGet(args.val, "device", PyStr(<<"all">>))
        IN  [devs |-> devs,
             ret |-> IF device.t = "str"
                        THEN get_status(devs, cfg, device.s)
                        ELSE <<ERR, " ", "Error getting device status: ",
                               "object has no attribute 'lower'">>]
    ELSE [devs |-> devs,
          ret |-> <<ERR, " ", "Unknown function: ">> \o function_name]

\* the first index k >= from with s[k] = atom, or 0
FirstIndex(s, from, atom) ==
    IF \E k \in from..Len(s) : s[k] = atom
        THEN CHOOSE k \in from..Len(s) :
                s[k] = atom /\ \A m \in from..(k - 1) : s[m] # atom
        ELSE 0

\* r'<function=([^{]+)(\{[^}]+\})</function>' matched at position i.  The name
\* runs to the first "{" and the arguments from there to the first "}".
MatchAt(s, i) ==
    LET j == FirstIndex(s, i + 1, "{")
        k == IF j = 0 THEN 0 ELSE FirstIndex(s, j + 1, "}")
    IN  IF /\ s[i] = "<function="
           /\ j > i + 1
           /\ k > j + 1
           /\ k + 1 <= Len(s)
           /\ s[k + 1] = "</function>"
            THEN [ok |-> TRUE, name |-> SubSeq(s, i + 1, j - 1),
                  args |-> SubSeq(s, j, k)]
            ELSE [ok |-> FALSE, name |-> <<>>, args |-> <<>>]

\* re.findall(function_pattern, text_response), and matches[0]
HasMatch(s) == \E i \in 1..Len(s) : MatchAt(s, i).ok
FirstMatch(s) ==
    MatchAt(s, CHOOSE i \in 1..Len(s) :
                    MatchAt(s, i).ok /\ \A m \in 1..(i - 1) : ~MatchAt(s, m).ok)

NoRun == <<>>

\* the prefix the inline path puts before a control_device result
Prefixed(function_name, result) ==
    IF function_name = <<"control_device">> THEN
        IF Contains(Lower(result), "turned on") THEN <<OK, " ">> \o result
        ELSE IF Contains(Lower(result), "turned off") THEN <<PLUG, " ">> \o result
        ELSE IF Contains(Lower(result), "set to") THEN <<GEAR, " ">> \o result
        ELSE result
    ELSE result

\* the inline path once _execute_function has returned r
Executed(function_name, function_args, r) ==
    [devs |-> r.devs,
     ran |-> <<[name |-> function_name, args |-> function_args,
                result |-> r.ret]>>,
     ret |-> Prefixed(function_name, r.ret)]

ExecuteParsed_runs_unparsed(function_name, function_args, devs, cfg, svc) ==
    Executed(function_name, JsonLoads(<<"{", "}">>),
             execute_function(function_name, JsonLoads(<<"{", "}">>),
                              devs, cfg, svc))

\* the inline path once the name is stripped and the arguments are parsed
ExecuteParsed(function_name, function_args, devs, cfg, svc) ==
    IF ~function_args.ok
        THEN [devs |-> devs, ran |-> NoRun,
              ret |-> <<"I understood your request but couldn't parse the parameters properly.">>]
        ELSE Executed(function_name, function_args,
                      execute_function(function_name, function_args,
                                       devs, cfg, svc))

\* _parse_and_execute_function_from_text: the devices afterwards, the string it
\* returns and the functions it ran
parse_and_execute_function_from_text(text_response, devs, cfg, svc) ==
    IF ~HasMatch(text_response)
        THEN [devs |-> devs, ran |-> NoRun,
              ret |-> <<"I understood your request but couldn't execute it properly.">>]
        ELSE ExecuteParsed(Strip(FirstMatch(text_response).name),
                           JsonLoads(FirstMatch(text_response).args),
                           devs, cfg, svc)

ErrorReply_without_text(text) == <<ERR, " ", "Error processing command">>

\* the string of the except clause of process_command
ErrorReply(text) == <<ERR, " ", "Error processing command: ">> \o text

NoLen == <<"object of type 'NoneType' has no len()">>

EmptyFallback ==
    <<"I processed your request, but didn't generate a response. Please try again.">>
BlankFallback ==
    <<"I received your command but my response was empty. Please try again.">>

Validate_passes_blank(final_response) ==
    IF ~Truthy(final_response) THEN EmptyFallback ELSE final_response.s

\* "Validate response": the string an empty or blank final response becomes
Validate(final_response) ==
    IF ~Truthy(final_response) THEN EmptyFallback
    ELSE IF Len(Strip(final_response.s)) = 0 THEN BlankFallback
    ELSE final_response.s

Save_untrimmed(history, cmd, final_response) ==
    Append(history, [user |-> cmd, assistant |-> final_response])

\* "Save conversation to history" and "Keep only last 20 conversations"
Save(history, cmd, final_response) ==
    LET h == Append(history, [user |-> cmd, assistant |-> final_response])
    IN  IF Len(h) > HistoryCap THEN LastN(h, HistoryCap) ELSE h

----------------------------------------------------------------------------
(* process_command, step by step: the request goes out (Submit), the chat    *)
(* client answers (LLMResponds), the follow-up request is answered          *)
(* (FollowUpResponds), the caller takes the reply (ReturnReply).            *)

\* the try block ran to its end: validate, save, trim, return
Record_saves_raw(final_response) ==
    /\ reply' = Validate(final_response)
    /\ conversation_history' = Save(conversation_history, command,
            IF final_response.t = "str" THEN final_response.s ELSE <<>>)
    /\ turns' = Append(turns, [user |-> command,
            assistant |-> IF final_response.t = "str" THEN final_response.s ELSE <<>>])
    /\ pc' = "REPLY_READY"

Record(final_response) ==
    /\ reply' = Validate(final_response)
    /\ conversation_history' =
            Save(conversation_history, command, Validate(final_response))
    /\ turns' = Append(turns, [user |-> command,
                               assistant |-> Validate(final_response)])
    /\ pc' = "REPLY_READY"

\* an exception reached the except clause of process_command
Fail(text) ==
    /\ reply' = ErrorReply(text)
    /\ pc' = "REPLY_READY"
    /\ UNCHANGED <<conversation_history, turns>>

\* lines 26-55: build the messages and send the first request
Submit(cmd, svc) ==
    /\ Idle
    /\ command' = cmd
    /\ services' = svc
    /\ messages' = BuildMessages(conversation_history, cmd)
    /\ requests' = <<[messages |-> BuildMessages(conversation_history, cmd),
                      functions |-> TRUE]>>
    /\ executed' = <<>>
    /\ reply' = <<>>
    /\ responses' = <<>>
    /\ history_before' = conversation_history
    /\ pc' = "CALLING_LLM"
    /\ UNCHANGED <<config, threadVars, devices, registryVars, conversation_history, turns>>

\* the follow-up request of lines 82-91
FollowUpRequest(function_call, function_result) ==
    [messages |-> messages \o
        <<[role |-> "assistant", content |-> <<>>, function_call |-> function_call],
          [role |-> "function", name |-> function_call.name,
           content |-> function_result]>>,
     functions |-> FALSE]

\* lines 61-65: the content holds the marker; r is what the parser returned
InlinePath_with_follow_up(r) ==
    /\ devices' = r.devs
    /\ executed' = executed \o r.ran
    /\ requests' = Append(requests, [messages |-> messages, functions |-> FALSE])
    /\ Record(PyStr(r.ret))

InlinePath(r) ==
    /\ devices' = r.devs
    /\ executed' = executed \o r.ran
    /\ Record(PyStr(r.ret))
    /\ UNCHANGED requests

\* lines 67-91: a structured call whose arguments parsed; r is what
\* _execute_function returned
StructuredPath(function_call, function_args, r) ==
    /\ devices' = r.devs
    /\ executed' = Append(executed, [name |-> function_call.name,
                                     args |-> function_args, result |-> r.ret])
    /\ requests' = Append(requests, FollowUpRequest(function_call, r.ret))
    /\ pc' = "FOLLOW_UP_CALL"
    /\ UNCHANGED <<reply, conversation_history, turns>>

LLMResponds_structured_first(response) ==
    /\ pc = "CALLING_LLM"
    /\ responses' = Append(responses, response)
    /\ IF response.kind = "raise" THEN
            /\ Fail(response.text)
            /\ UNCHANGED <<devices, executed, requests>>
       ELSE IF Truthy(response.function_call) THEN
            IF ~JsonLoads(response.function_call.arguments).ok THEN
                /\ Fail(JSONDecodeError)
                /\ UNCHANGED <<devices, executed, requests>>
            ELSE
                StructuredPath(response.function_call,
                    JsonLoads(response.function_call.arguments),
                    execute_function(response.function_call.name,
                        JsonLoads(response.function_call.arguments),
                        devices, config, services))
       ELSE IF Truthy(response.content)
               /\ Contains(response.content.s, "<function=") THEN
            InlinePath(parse_and_execute_function_from_text(
                            response.content.s, devices, config, services))
       ELSE IF response.content.t = "none" THEN
            /\ Fail(NoLen)
            /\ UNCHANGED <<devices, executed, requests>>
       ELSE
            /\ Record(response.content)
            /\ UNCHANGED <<devices, executed, requests>>
    /\ UNCHANGED <<config, threadVars, registryVars, command, services, messages,
                   history_before, assistantVars>>

\* lines 47-125 and 127-131: the first request returns or raises
LLMResponds(response) ==
    /\ pc = "CALLING_LLM"
    /\ responses' = Append(responses, response)
    /\ IF response.kind = "raise" THEN
            /\ Fail(response.text)
            /\ UNCHANGED <<devices, executed, requests>>
       ELSE IF Truthy(response.content)
               /\ Contains(response.content.s, "<function=") THEN
            InlinePath(parse_and_execute_function_from_text(
                            response.content.s, devices, config, services))
       ELSE IF Truthy(response.function_call) THEN
            IF ~JsonLoads(response.function_call.arguments).ok THEN
                /\ Fail(JSONDecodeError)
                /\ UNCHANGED <<devices, executed, requests>>
            ELSE
                StructuredPath(response.function_call,
                    JsonLoads(response.function_call.arguments),
                    execute_function(response.function_call.name,
                        JsonLoads(response.function_call.arguments),
                        devices, config, services))
       ELSE IF response.content.t = "none" THEN
            \* the log line takes len(final_response)
            /\ Fail(NoLen)
            /\ UNCHANGED <<devices, executed, requests>>
       ELSE
            \* the "additional check" of line 100 cannot succeed here: content
            \* that holds "<function=" took the first branch
            /\ Record(response.content)
            /\ UNCHANGED <<devices, executed, requests>>
    /\ UNCHANGED <<config, threadVars, registryVars, command, services, messages,
                   history_before, assistantVars>>

FollowUpResponds_retries(response) ==
    /\ pc = "FOLLOW_UP_CALL"
    /\ responses' = Append(responses, response)
    /\ IF response.kind = "raise" /\ Len(requests) < 3 THEN
            /\ requests' = Append(requests, requests[Len(requests)])
            /\ UNCHANGED <<pc, reply, conversation_history, turns>>
       ELSE IF response.kind = "raise" THEN
            Fail(response.text) /\ UNCHANGED requests
       ELSE IF response.content.t = "none" THEN
            Fail(NoLen) /\ UNCHANGED requests
       ELSE Record(response.content) /\ UNCHANGED requests
    /\ UNCHANGED <<config, threadVars, devices, registryVars, command, services, messages,
                   executed, history_before, assistantVars>>

\* lines 82-125 and 127-131: the follow-up request returns or raises
FollowUpResponds(response) ==
    /\ pc = "FOLLOW_UP_CALL"
    /\ responses' = Append(responses, response)
    /\ IF response.kind = "raise" THEN Fail(response.text)
       ELSE IF response.content.t = "none" THEN Fail(NoLen)
       ELSE Record(response.content)
    /\ UNCHANGED <<config, threadVars, devices, registryVars, command, services, messages,
                   executed, requests, history_before, assistantVars>>

\* the caller takes the reply; the call's locals are gone
ReturnReply ==
    /\ pc = "REPLY_READY"
    /\ pc' = "AWAITING_COMMAND"
    /\ command' = <<>>
    /\ services' = [weather_service |-> "none", news_service |-> "none"]
    /\ messages' = <<>>
    /\ requests' = <<>>
    /\ executed' = <<>>
    /\ reply' = <<>>
    /\ responses' = <<>>
    /\ history_before' = <<>>
    /\ devices' = Rebase(devices)
    /\ before' = Rebase(devices)
    /\ UNCHANGED <<config, threadVars, call, ret, conversation_history, turns>>

----------------------------------------------------------------------------
(* The interpreter's inputs.                                                *)

MaxTurns == 2           \* turns recorded in a run of Spec

CommandArgs == {<<"turn on the kitchen lamp">>, <<"what time is it">>}

ServiceArgs ==
    {[weather_service |-> "none", news_service |-> "none"],
     [weather_service |-> "ok", news_service |-> "fails"]}

LampOn == "\"device_type\":\"lamp\",\"action\":\"on\",\"location\":\"kitchen\""
LampOff == "\"device_type\":\"lamp\",\"action\":\"off\",\"location\":\"kitchen\""
AcTemperature ==
    "\"device_type\":\"ac\",\"action\":\"temperature\",\"location\":\"kitchen\",\"value\":\"22\""

Marker(name, members) ==
    <<"<function=">> \o name \o <<"{", members, "}", "</function>">>

\* contents that hold the inline marker and match the pattern
MarkerContents ==
    {Marker(<<"control_device">>, LampOn),
     <<"Sure! ">> \o Marker(<<"control_device", " ">>, LampOff) \o <<" Done.">>,
     Marker(<<"get_weather">>, "\"city\":\"Shiraz\""),
     Marker(<<"control_device">>, LampOff) \o Marker(<<"control_device">>, LampOn),
     Marker(<<"open_door">>, LampOn),
     Marker(<<"control_device">>, "\"device_type\":\"lamp\""),
     <<"<function=", "</function>", "<function=", "get_time", "{", " ", "}",
       "</function>">>}

\* contents that hold "<function=" and do not match the pattern or do not parse
BrokenMarkerContents ==
    {Marker(<<"control_device">>, "device_type: lamp"),
     <<"<function=", "control_device", "{", LampOn, ",", "{", "}", "}",
       "</function>">>,
     <<"<function=", "get_time", "{", "}", "</function>">>,
     <<"<function=", "get_time", "</function>">>}

PlainContents == {None, PyStr(<<>>), PyStr(<<" ", "\n">>), PyStr(<<"Hello! How can I help?">>)}

FunctionCalls ==
    {FunctionCall(<<"control_device">>, <<"{", LampOn, "}">>),
     FunctionCall(<<"control_device">>, <<"{", " ", AcTemperature, " ", "}">>),
     FunctionCall(<<"control_device">>, <<"{", "\"device_type\":\"lamp\"", "}">>),
     FunctionCall(<<"control_device">>,
        <<"{", "\"device_type\":\"lamp\",\"action\":\"on\",\"room\":\"kitchen\"", "}">>),
     FunctionCall(<<"control_device">>, <<"{", "device_type: lamp", "}">>),
     FunctionCall(<<"get_weather">>, <<"{", "}">>),
     FunctionCall(<<"get_weather">>, <<"null">>),
     FunctionCall(<<"get_news">>, <<"{", "}">>),
     FunctionCall(<<"get_time">>, <<"{", "}">>),
     FunctionCall(<<"get_device_status">>, <<"{", "\"device\":\"kitchen\"", "}">>),
     FunctionCall(<<"open_door">>, <<"{", "}">>)}

TimedOut == <<"Request timed out.">>

\* what the first request may come back with
Responses ==
    {Raises(TimedOut)}
    \cup {Message(c, None) : c \in PlainContents}
    \cup {Message(PyStr(c), None) : c \in MarkerContents \cup BrokenMarkerContents}
    \cup {Message(None, f) : f \in FunctionCalls}
    \cup {Message(PyStr(<<>>), FunctionCall(<<"get_time">>, <<"{", "}">>)),
          Message(PyStr(<<"Hello! How can I help?">>),
                  FunctionCall(<<"get_time">>, <<"{", "}">>)),
          Message(PyStr(Marker(<<"control_device">>, LampOn)),
                  FunctionCall(<<"get_time">>, <<"{", "}">>))}

\* what the follow-up request may come back with
FollowUpResponses ==
    {Raises(TimedOut)} \cup {Message(c, None) : c \in PlainContents}

Next ==
    \/ \E cmd \in CommandArgs, svc \in ServiceArgs :
            Len(turns) < MaxTurns /\ Submit(cmd, svc)
                /\ UNCHANGED assistantVars
    \/ \E response \in Responses : LLMResponds(response)
    \/ \E response \in FollowUpResponses : FollowUpResponds(response)
    \/ ReturnReply /\ UNCHANGED assistantVars

\* the registry of the spec's examples: a kitchen lamp and a kitchen AC
InitKitchen == Init /\ config = [lamps |-> <<Kitchen>>, acs |-> <<Kitchen>>, tvs |-> <<>>]

Spec == InitKitchen /\ [][Next]_vars

\* the chat client returns or raises within its timeout, so a request that
\* was sent is answered
SpecLive ==
    /\ InitKitchen
    /\ [][Next]_vars
    /\ WF_vars(\E response \in Responses : LLMResponds(response))
    /\ WF_vars(\E response \in FollowUpResponses : FollowUpResponds(response))

----------------------------------------------------------------------------
(* A long conversation: numbered commands, answered in plain text, through  *)
(* a function call and its follow-up, or not at all.                        *)

MaxLongTurns == 22      \* turns recorded in a run of SpecHistory

NumberedCommand(n) == <<"say ">> \o NatStr(n)
NumberedAnswer(n) == PyStr(<<"said ">> \o NatStr(n))

NoServices == [weather_service |-> "none", news_service |-> "none"]

LongResponses(n) ==
    {Raises(TimedOut), Message(None, None), Message(NumberedAnswer(n), None),
     Message(None, FunctionCall(<<"get_time">>, <<"{", "}">>))}

LongFollowUpResponses(n) ==
    {Raises(TimedOut), Message(None, None), Message(NumberedAnswer(n), None)}

NextHistory ==
    \/ \E n \in 1..MaxLongTurns :
            n = Len(turns) + 1 /\ Submit(NumberedCommand(n), NoServices)
                /\ UNCHANGED assistantVars
    \/ \E response \in LongResponses(Len(turns) + 1) : LLMResponds(response)
    \/ \E response \in LongFollowUpResponses(Len(turns) + 1) :
            FollowUpResponds(response)
    \/ ReturnReply /\ UNCHANGED assistantVars

SpecHistory == InitKitchen /\ [][NextHistory]_vars

----------------------------------------------------------------------------
(* The registry used directly and through process_command, in any order.    *)

MaxHomeTurns == 1       \* turns recorded in a run of SpecHome

NextHome ==
    \/ \E target \in TargetArgs, action \in PowerActions :
            ControlDevice(target[1], action, target[2], None)
    \/ \E device_name \in DeviceNameArgs : GetStatus(device_name)
    \/ Return
    \/ \E cmd \in CommandArgs, svc \in ServiceArgs :
            Len(turns) < MaxHomeTurns /\ Submit(cmd, svc)
                /\ UNCHANGED assistantVars
    \/ \E response \in Responses : LLMResponds(response)
    \/ \E response \in FollowUpResponses : FollowUpResponds(response)
    \/ ReturnReply /\ UNCHANGED assistantVars

SpecHome == Init /\ [][NextHome]_vars

----------------------------------------------------------------------------
(* PersianService (smart_home/services/persian_service.py).  Its texts are  *)
(* sequences of characters: an ASCII character is itself, any other is the  *)
(* atom "U+" followed by its code point in hexadecimal.  The English texts  *)
(* it returns whole are one atom each.                                      *)

\* the tokens of the regular expressions of translate_to_english
Literal(s) == [t |-> "literal", s |-> s]
DigitsGroup == [t |-> "digits"]     \* (\d+)
AnyGroup == [t |-> "any"]           \* (.+)

persian_ranges == <<<<1536, 1791>>, <<64336, 65023>>, <<65136, 65279>>>>

persian_words ==
    <<<<"U+0631", "U+0648", "U+0634", "U+0646">>,
      <<"U+062E", "U+0627", "U+0645", "U+0648", "U+0634">>,
      <<"U+0686", "U+0631", "U+0627", "U+063A">>,
      <<"U+062A", "U+0644", "U+0648", "U+06CC", "U+0632", "U+06CC", "U+0648", "U+0646">>,
      <<"U+06A9", "U+0648", "U+0644", "U+0631">>,
      <<"U+0647", "U+0648", "U+0627">>,
      <<"U+062E", "U+0628", "U+0631">>,
      <<"U+0648", "U+0642", "U+062A">>,
      <<"U+0633", "U+0627", "U+0639", "U+062A">>,
      <<"U+062F", "U+0645", "U+0627">>,
      <<"U+062F", "U+0631", "U+062C", "U+0647">>,
      <<"U+06A9", "U+0627", "U+0646", "U+0627", "U+0644">>,
      <<"U+0635", "U+062F", "U+0627">>,
      <<"U+0631", "U+0646", "U+06AF">>,
      <<"U+0635", "U+0628", "U+062D">>,
      <<"U+0634", "U+0628">>,
      <<"U+0622", "U+0634", "U+067E", "U+0632", "U+062E", "U+0627", "U+0646", "U+0647">>,
      <<"U+062D", "U+0645", "U+0627", "U+0645">>,
      <<"U+0627", "U+062A", "U+0627", "U+0642">>,
      <<"U+067E", "U+0630", "U+06CC", "U+0631", "U+0627", "U+06CC", "U+06CC">>,
      <<"U+0633", "U+0644", "U+0627", "U+0645">>,
      <<"U+0686", "U+0637", "U+0648", "U+0631">>,
      <<"U+0686", "U+06CC">>,
      <<"U+0686", "U+0647">>,
      <<"U+06A9", "U+0646">>,
      <<"U+0628", "U+062F", "U+0647">>,
      <<"U+0647", "U+0645", "U+0647">>,
      <<"U+062A", "U+0645", "U+0627", "U+0645">>>>

quick_patterns ==
    <<[persian |->
            <<"U+0686", "U+0631", "U+0627", "U+063A", " ", "U+0622", "U+0634",
              "U+067E", "U+0632", "U+062E", "U+0627", "U+0646", "U+0647", " ",
              "U+0631", "U+0627", " ", "U+0631", "U+0648", "U+0634", "U+0646",
              " ", "U+06A9", "U+0646">>,
         english |-> <<"turn on the kitchen lamp">>],
      [persian |->
            <<"U+0686", "U+0631", "U+0627", "U+063A", " ", "U+062D", "U+0645",
              "U+0627", "U+0645", " ", "U+0631", "U+0627", " ", "U+0631",
              "U+0648", "U+0634", "U+0646", " ", "U+06A9", "U+0646">>,
         english |-> <<"turn on the bathroom lamp">>],
      [persian |->
            <<"U+0686", "U+0631", "U+0627", "U+063A", " ", "U+0627", "U+062A",
              "U+0627", "U+0642", " ", "U+06CC", "U+06A9", " ", "U+0631",
              "U+0627", " ", "U+0631", "U+0648", "U+0634", "U+0646", " ",
              "U+06A9", "U+0646">>,
         english |-> <<"turn on the room 1 lamp">>],
      [persian |->
            <<"U+0686", "U+0631", "U+0627", "U+063A", " ", "U+0627", "U+062A",
              "U+0627", "U+0642", " ", "U+062F", "U+0648", " ", "U+0631",
              "U+0627", " ", "U+0631", "U+0648", "U+0634", "U+0646", " ",
              "U+06A9", "U+0646">>,
         english |-> <<"turn on the room 2 lamp">>],
      [persian |->
            <<"U+0686", "U+0631", "U+0627", "U+063A", " ", "U+0622", "U+0634",
              "U+067E", "U+0632", "U+062E", "U+0627", "U+0646", "U+0647", " ",
              "U+0631", "U+0627", " ", "U+062E", "U+0627", "U+0645", "U+0648",
              "U+0634", " ", "U+06A9", "U+0646">>,
         english |-> <<"turn off the kitchen lamp">>],
      [persian |->
            <<"U+0686", "U+0631", "U+0627", "U+063A", " ", "U+062D", "U+0645",
              "U+0627", "U+0645", " ", "U+0631", "U+0627", " ", "U+062E",
              "U+0627", "U+0645", "U+0648", "U+0634", " ", "U+06A9",
              "U+0646">>,
         english |-> <<"turn off the bathroom lamp">>],
      [persian |->
            <<"U+0647", "U+0645", "U+0647", " ", "U+0686", "U+0631", "U+0627",
              "U+063A", "U+200C", "U+0647", "U+0627", " ", "U+0631", "U+0627",
              " ", "U+0631", "U+0648", "U+0634", "U+0646", " ", "U+06A9",
              "U+0646">>,
         english |-> <<"turn on all lamps">>],
      [persian |->
            <<"U+0647", "U+0645", "U+0647", " ", "U+0686", "U+0631", "U+0627",
              "U+063A", "U+200C", "U+0647", "U+0627", " ", "U+0631", "U+0627",
              " ", "U+062E", "U+0627", "U+0645", "U+0648", "U+0634", " ",
              "U+06A9", "U+0646">>,
         english |-> <<"turn off all lamps">>],
      [persian |->
            <<"U+06A9", "U+0648", "U+0644", "U+0631", " ", "U+0631", "U+0627",
              " ", "U+0631", "U+0648", "U+0634", "U+0646", " ", "U+06A9",
              "U+0646">>,
         english |-> <<"turn on the AC">>],
      [persian |->
            <<"U+06A9", "U+0648", "U+0644", "U+0631", " ", "U+0627", "U+062A",
              "U+0627", "U+0642", " ", "U+06CC", "U+06A9", " ", "U+0631",
              "U+0627", " ", "U+0631", "U+0648", "U+0634", "U+0646", " ",
              "U+06A9", "U+0646">>,
         english |-> <<"turn on the room 1 AC">>],
      [persian |->
            <<"U+06A9", "U+0648", "U+0644", "U+0631", " ", "U+0622", "U+0634",
              "U+067E", "U+0632", "U+062E", "U+0627", "U+0646", "U+0647", " ",
              "U+0631", "U+0627", " ", "U+0631", "U+0648", "U+0634", "U+0646",
              " ", "U+06A9", "U+0646">>,
         english |-> <<"turn on the kitchen AC">>],
      [persian |->
            <<"U+06A9", "U+0648", "U+0644", "U+0631", " ", "U+0631", "U+0627",
              " ", "U+062E", "U+0627", "U+0645", "U+0648", "U+0634", " ",
              "U+06A9", "U+0646">>,
         english |-> <<"turn off the AC">>],
      [persian |->
            <<"U+062A", "U+0644", "U+0648", "U+06CC", "U+0632", "U+06CC",
              "U+0648", "U+0646", " ", "U+0631", "U+0627", " ", "U+0631",
              "U+0648", "U+0634", "U+0646", " ", "U+06A9", "U+0646">>,
         english |-> <<"turn on the TV">>],
      [persian |->
            <<"U+062A", "U+0644", "U+0648", "U+06CC", "U+0632", "U+06CC",
              "U+0648", "U+0646", " ", "U+0631", "U+0627", " ", "U+062E",
              "U+0627", "U+0645", "U+0648", "U+0634", " ", "U+06A9",
              "U+0646">>,
         english |-> <<"turn off the TV">>],
      [persian |->
            <<"U+062A", "U+06CC", " ", "U+0648", "U+06CC", " ", "U+0631",
              "U+0627", " ", "U+0631", "U+0648", "U+0634", "U+0646", " ",
              "U+06A9", "U+0646">>,
         english |-> <<"turn on the TV">>],
      [persian |->
            <<"U+062A", "U+06CC", " ", "U+0648", "U+06CC", " ", "U+0631",
              "U+0627", " ", "U+062E", "U+0627", "U+0645", "U+0648", "U+0634",
              " ", "U+06A9", "U+0646">>,
         english |-> <<"turn off the TV">>],
      [persian |->
            <<"U+0647", "U+0645", "U+0647", " ", "U+062F", "U+0633", "U+062A",
              "U+06AF", "U+0627", "U+0647", "U+200C", "U+0647", "U+0627", " ",
              "U+0631", "U+0627", " ", "U+062E", "U+0627", "U+0645", "U+0648",
              "U+0634", " ", "U+06A9", "U+0646">>,
         english |-> <<"turn off all devices">>],
      [persian |->
            <<"U+062A", "U+0645", "U+0627", "U+0645", " ", "U+062F", "U+0633",
              "U+062A", "U+06AF", "U+0627", "U+0647", "U+200C", "U+0647",
              "U+0627", " ", "U+0631", "U+0627", " ", "U+062E", "U+0627",
              "U+0645", "U+0648", "U+0634", " ", "U+06A9", "U+0646">>,
         english |-> <<"turn off all devices">>],
      [persian |->
            <<"U+0648", "U+0636", "U+0639", "U+06CC", "U+062A", " ", "U+062F",
              "U+0633", "U+062A", "U+06AF", "U+0627", "U+0647", "U+200C",
              "U+0647", "U+0627", " ", "U+0686", "U+06CC", "U+0647">>,
         english |-> <<"what is the status of all devices">>],
      [persian |->
            <<"U+0648", "U+0636", "U+0639", "U+06CC", "U+062A", " ", "U+062F",
              "U+0633", "U+062A", "U+06AF", "U+0627", "U+0647", "U+200C",
              "U+0647", "U+0627", " ", "U+0631", "U+0627", " ", "U+0646",
              "U+0634", "U+0627", "U+0646", " ", "U+0628", "U+062F",
              "U+0647">>,
         english |-> <<"show device status">>],
      [persian |->
            <<"U+062F", "U+0633", "U+062A", "U+06AF", "U+0627", "U+0647",
              "U+200C", "U+0647", "U+0627", " ", "U+0686", "U+0637", "U+0648",
              "U+0631", "U+0646">>,
         english |-> <<"how are the devices">>],
      [persian |->
            <<"U+0647", "U+0648", "U+0627", " ", "U+0686", "U+0637", "U+0648",
              "U+0631", "U+0647">>,
         english |-> <<"what's the weather">>],
      [persian |->
            <<"U+0647", "U+0648", "U+0627", "U+06CC", " ", "U+062A", "U+0647",
              "U+0631", "U+0627", "U+0646", " ", "U+0686", "U+0637", "U+0648",
              "U+0631", "U+0647">>,
         english |-> <<"what's the weather in Tehran">>],
      [persian |->
            <<"U+0622", "U+0628", " ", "U+0648", " ", "U+0647", "U+0648",
              "U+0627", " ", "U+0686", "U+0637", "U+0648", "U+0631",
              "U+0647">>,
         english |-> <<"what's the weather">>],
      [persian |->
            <<"U+0622", "U+0628", " ", "U+0648", " ", "U+0647", "U+0648",
              "U+0627", "U+06CC", " ", "U+062A", "U+0647", "U+0631", "U+0627",
              "U+0646">>,
         english |-> <<"weather in Tehran">>],
      [persian |->
            <<"U+0633", "U+0627", "U+0639", "U+062A", " ", "U+0686", "U+0646",
              "U+062F", "U+0647">>,
         english |-> <<"what time is it">>],
      [persian |->
            <<"U+0648", "U+0642", "U+062A", " ", "U+0686", "U+06CC",
              "U+0647">>,
         english |-> <<"what time is it">>],
      [persian |->
            <<"U+0632", "U+0645", "U+0627", "U+0646", " ", "U+0686", "U+0642",
              "U+062F", "U+0631", "U+0647">>,
         english |-> <<"what time is it">>],
      [persian |->
            <<"U+0627", "U+0644", "U+0627", "U+0646", " ", "U+0633", "U+0627",
              "U+0639", "U+062A", " ", "U+0686", "U+0646", "U+062F",
              "U+0647">>,
         english |-> <<"what time is it now">>]>>

persian_digits == <<"U+06F0", "U+06F1", "U+06F2", "U+06F3", "U+06F4", "U+06F5", "U+06F6", "U+06F7", "U+06F8", "U+06F9">>
english_digits == <<"0", "1", "2", "3", "4", "5", "6", "7", "8", "9">>

AcSetTo ==
    <<"U+06A9", "U+0648", "U+0644", "U+0631", " ", "U+0631", "U+0627", " ",
      "U+0631", "U+0648", "U+06CC", " ">>
DegreesSet ==
    <<" ", "U+062F", "U+0631", "U+062C", "U+0647", " ", "U+062A", "U+0646",
      "U+0638", "U+06CC", "U+0645", " ", "U+06A9", "U+0646">>
Ac ==
    <<"U+06A9", "U+0648", "U+0644", "U+0631", " ">>
SetTo ==
    <<" ", "U+0631", "U+0627", " ", "U+0631", "U+0648", "U+06CC", " ">>
TemperatureSetTo ==
    <<"U+062F", "U+0645", "U+0627", " ", "U+0631", "U+0627", " ", "U+0631",
      "U+0648", "U+06CC", " ">>
Set ==
    <<" ", "U+062A", "U+0646", "U+0638", "U+06CC", "U+0645", " ", "U+06A9",
      "U+0646">>
LampSetTo ==
    <<"U+0686", "U+0631", "U+0627", "U+063A", " ", "U+0631", "U+0627", " ",
      "U+0631", "U+0648", "U+06CC", " ">>
PercentBrightnessSet ==
    <<" ", "U+062F", "U+0631", "U+0635", "U+062F", " ", "U+0631", "U+0648",
      "U+0634", "U+0646", "U+06CC", " ", "U+062A", "U+0646", "U+0638",
      "U+06CC", "U+0645", " ", "U+06A9", "U+0646">>
Lamp ==
    <<"U+0686", "U+0631", "U+0627", "U+063A", " ">>
PercentSet ==
    <<" ", "U+062F", "U+0631", "U+0635", "U+062F", " ", "U+062A", "U+0646",
      "U+0638", "U+06CC", "U+0645", " ", "U+06A9", "U+0646">>
LampBrightness ==
    <<"U+0631", "U+0648", "U+0634", "U+0646", "U+06CC", " ", "U+0686",
      "U+0631", "U+0627", "U+063A", " ", "U+0631", "U+0627", " ">>
PercentDo ==
    <<" ", "U+062F", "U+0631", "U+0635", "U+062F", " ", "U+06A9", "U+0646">>
RoomOne ==
    <<"U+0627", "U+062A", "U+0627", "U+0642", " ", "U+06CC", "U+06A9">>
KitchenWord ==
    <<"U+0622", "U+0634", "U+067E", "U+0632", "U+062E", "U+0627", "U+0646",
      "U+0647">>
BathroomWord ==
    <<"U+062D", "U+0645", "U+0627", "U+0645">>

temp_patterns ==
    <<[pattern |-> <<Literal(AcSetTo), DigitsGroup, Literal(DegreesSet)>>,
       template |-> <<"set AC to ", "\\1", " degrees">>],
      [pattern |-> <<Literal(Ac), AnyGroup, Literal(SetTo), DigitsGroup, Literal(DegreesSet)>>,
       template |-> <<"set ", "\\1", " AC to ", "\\2", " degrees">>],
      [pattern |-> <<Literal(TemperatureSetTo), DigitsGroup, Literal(Set)>>,
       template |-> <<"set temperature to ", "\\1">>]>>

brightness_patterns ==
    <<[pattern |-> <<Literal(LampSetTo), DigitsGroup, Literal(PercentBrightnessSet)>>,
       template |-> <<"set lamp to ", "\\1", "% brightness">>],
      [pattern |-> <<Literal(Lamp), AnyGroup, Literal(SetTo), DigitsGroup, Literal(PercentSet)>>,
       template |-> <<"set ", "\\1", " lamp to ", "\\2", "% brightness">>],
      [pattern |-> <<Literal(LampBrightness), DigitsGroup, Literal(PercentDo)>>,
       template |-> <<"set lamp brightness to ", "\\1", "%">>]>>

Salam == <<"U+0633", "U+0644", "U+0627", "U+0645">>
PersianComma == <<"U+060C">>
ArabicIndicDigits == <<"U+0662", "U+0664">>
AlefIsolated == <<"U+FE8D">>
And == <<" ", "U+0648", " ">>
Bashe == <<"U+0628", "U+0627", "U+0634", "U+0647">>
ECircumflex == <<"U+00E9">>

\* the characters outside ASCII that the texts of the model are written with:
\* ord(c), c.isalpha(), c.isdecimal()
Unicode ==
    <<[c |-> "U+00E9", ord |-> 233, alpha |-> TRUE, decimal |-> FALSE],
      [c |-> "U+060C", ord |-> 1548, alpha |-> FALSE, decimal |-> FALSE],
      [c |-> "U+0622", ord |-> 1570, alpha |-> TRUE, decimal |-> FALSE],
      [c |-> "U+0627", ord |-> 1575, alpha |-> TRUE, decimal |-> FALSE],
      [c |-> "U+0628", ord |-> 1576, alpha |-> TRUE, decimal |-> FALSE],
      [c |-> "U+062A", ord |-> 1578, alpha |-> TRUE, decimal |-> FALSE],
      [c |-> "U+062C", ord |-> 1580, alpha |-> TRUE, decimal |-> FALSE],
      [c |-> "U+062D", ord |-> 1581, alpha |-> TRUE, decimal |-> FALSE],
      [c |-> "U+062E", ord |-> 1582, alpha |-> TRUE, decimal |-> FALSE],
      [c |-> "U+062F", ord |-> 1583, alpha |-> TRUE, decimal |-> FALSE],
      [c |-> "U+0630", ord |-> 1584, alpha |-> TRUE, decimal |-> FALSE],
      [c |-> "U+0631", ord |-> 1585, alpha |-> TRUE, decimal |-> FALSE],
      [c |-> "U+0632", ord |-> 1586, alpha |-> TRUE, decimal |-> FALSE],
      [c |-> "U+0633", ord |-> 1587, alpha |-> TRUE, decimal |-> FALSE],
      [c |-> "U+0634", ord |-> 1588, alpha |-> TRUE, decimal |-> FALSE],
      [c |-> "U+0635", ord |-> 1589, alpha |-> TRUE, decimal |-> FALSE],
      [c |-> "U+0636", ord |-> 1590, alpha |-> TRUE, decimal |-> FALSE],
      [c |-> "U+0637", ord |-> 1591, alpha |-> TRUE, decimal |-> FALSE],
      [c |-> "U+0638", ord |-> 1592, alpha |-> TRUE, decimal |-> FALSE],
      [c |-> "U+0639", ord |-> 1593, alpha |-> TRUE, decimal |-> FALSE],
      [c |-> "U+063A", ord |-> 1594, alpha |-> TRUE, decimal |-> FALSE],
      [c |-> "U+0642", ord |-> 1602, alpha |-> TRUE, decimal |-> FALSE],
      [c |-> "U+0644", ord |-> 1604, alpha |-> TRUE, decimal |-> FALSE],
      [c |-> "U+0645", ord |-> 1605, alpha |-> TRUE, decimal |-> FALSE],
      [c |-> "U+0646", ord |-> 1606, alpha |-> TRUE, decimal |-> FALSE],
      [c |-> "U+0647", ord |-> 1607, alpha |-> TRUE, decimal |-> FALSE],
      [c |-> "U+0648", ord |-> 1608, alpha |-> TRUE, decimal |-> FALSE],
      [c |-> "U+0662", ord |-> 1634, alpha |-> FALSE, decimal |-> TRUE],
      [c |-> "U+0664", ord |-> 1636, alpha |-> FALSE, decimal |-> TRUE],
      [c |-> "U+067E", ord |-> 1662, alpha |-> TRUE, decimal |-> FALSE],
      [c |-> "U+0686", ord |-> 1670, alpha |-> TRUE, decimal |-> FALSE],
      [c |-> "U+06A9", ord |-> 1705, alpha |-> TRUE, decimal |-> FALSE],
      [c |-> "U+06AF", ord |-> 1711, alpha |-> TRUE, decimal |-> FALSE],
      [c |-> "U+06CC", ord |-> 1740, alpha |-> TRUE, decimal |-> FALSE],
      [c |-> "U+06F0", ord |-> 1776, alpha |-> FALSE, decimal |-> TRUE],
      [c |-> "U+06F1", ord |-> 1777, alpha |-> FALSE, decimal |-> TRUE],
      [c |-> "U+06F2", ord |-> 1778, alpha |-> FALSE, decimal |-> TRUE],
      [c |-> "U+06F3", ord |-> 1779, alpha |-> FALSE, decimal |-> TRUE],
      [c |-> "U+06F4", ord |-> 1780, alpha |-> FALSE, decimal |-> TRUE],
      [c |-> "U+06F5", ord |-> 1781, alpha |-> FALSE, decimal |-> TRUE],
      [c |-> "U+06F6", ord |-> 1782, alpha |-> FALSE, decimal |-> TRUE],
      [c |-> "U+06F7", ord |-> 1783, alpha |-> FALSE, decimal |-> TRUE],
      [c |-> "U+06F8", ord |-> 1784, alpha |-> FALSE, decimal |-> TRUE],
      [c |-> "U+06F9", ord |-> 1785, alpha |-> FALSE, decimal |-> TRUE],
      [c |-> "U+200C", ord |-> 8204, alpha |-> FALSE, decimal |-> FALSE],
      [c |-> "U+FE8D", ord |-> 65165, alpha |-> TRUE, decimal |-> FALSE]>>

InUnicode(c) == \E i \in 1..Len(Unicode) : Unicode[i].c = c
CharInfo(c) == Unicode[CHOOSE i \in 1..Len(Unicode) : Unicode[i].c = c]

\* c.isalpha(), c.isdecimal()
isalpha(c) == IF InUnicode(c) THEN CharInfo(c).alpha ELSE IsLetter(c)
isdecimal(c) == IF InUnicode(c) THEN CharInfo(c).decimal ELSE IsDigit(c)

\* start <= ord(char) <= end for one of persian_ranges; the code point of an
\* ASCII character is below every range
InPersianRanges(c) ==
    /\ InUnicode(c)
    /\ \E r \in 1..Len(persian_ranges) :
            /\ persian_ranges[r][1] <= CharInfo(c).ord
            /\ CharInfo(c).ord <= persian_ranges[r][2]

\* the loop of lines 85-92 of is_persian
RECURSIVE count_chars(_, _, _)
count_chars(text, persian_char_count, total_chars) ==
    IF text = <<>>
        THEN [persian_char_count |-> persian_char_count,
              total_chars |-> total_chars]
    ELSE IF isalpha(Head(text))
        THEN count_chars(Tail(text),
                         IF InPersianRanges(Head(text))
                            THEN persian_char_count + 1
                            ELSE persian_char_count,
                         total_chars + 1)
    ELSE count_chars(Tail(text), persian_char_count, total_chars)

\* lines 95-104, n being the two counts; the quotient compared with 0.3 is
\* computed in integers
is_persian_counted(text, n) ==
    IF n.total_chars > 0 /\ 10 * n.persian_char_count > 3 * n.total_chars
        THEN TRUE
        ELSE \E w \in 1..Len(persian_words) :
                IsSubstring(persian_words[w], Lower(text))

is_persian_ratio_only(text) ==
    IF text = <<>> \/ Strip(text) = <<>> THEN FALSE
    ELSE LET n == count_chars(text, 0, 0)
         IN  n.total_chars > 0 /\ 10 * n.persian_char_count > 3 * n.total_chars

\* PersianService.is_persian
is_persian(text) ==
    IF text = <<>> \/ Strip(text) = <<>> THEN FALSE
    ELSE is_persian_counted(text, count_chars(text, 0, 0))

\* LLMService.translate_text: the chat client answers with response; a
\* failure, the missing strip() of an absent content included, returns the text
translate_text_blank_on_failure(text, target_language, response) ==
    IF response.kind = "raise" THEN <<>>
    ELSE IF response.content.t # "str" THEN <<>>
    ELSE Strip(response.content.s)

translate_text(text, target_language, response) ==
    IF response.kind = "raise" THEN text
    ELSE IF response.content.t # "str" THEN text
    ELSE Strip(response.content.s)

\* "Convert Persian digits to English"
ToEnglishDigits(s) ==
    [i \in 1..Len(s) |->
        IF \E k \in 1..Len(persian_digits) : persian_digits[k] = s[i]
            THEN english_digits[CHOOSE k \in 1..Len(persian_digits) :
                                    persian_digits[k] = s[i]]
            ELSE s[i]]

\* a character a group of the pattern may hold
GroupChar(token, c) == IF token.t = "digits" THEN isdecimal(c) ELSE c # "\n"

NoMatch == [ok |-> FALSE, end |-> 0, groups |-> <<>>]

\* the pattern matched at position i of s: a greedy group takes the longest
\* run after which the rest of the pattern still matches
RECURSIVE MatchFrom(_, _, _)
MatchFrom(s, i, pattern) ==
    IF pattern = <<>> THEN [ok |-> TRUE, end |-> i, groups |-> <<>>]
    ELSE IF Head(pattern).t = "literal" THEN
        IF /\ i + Len(Head(pattern).s) - 1 <= Len(s)
           /\ SubSeq(s, i, i + Len(Head(pattern).s) - 1) = Head(pattern).s
            THEN MatchFrom(s, i + Len(Head(pattern).s), Tail(pattern))
            ELSE NoMatch
    ELSE
        LET ends == {j \in (i + 1)..(Len(s) + 1) :
                        /\ \A k \in i..(j - 1) : GroupChar(Head(pattern), s[k])
                        /\ MatchFrom(s, j, Tail(pattern)).ok}
        IN  IF ends = {} THEN NoMatch
            ELSE LET j == CHOOSE e \in ends : \A m \in ends : m <= e
                     rest == MatchFrom(s, j, Tail(pattern))
                 IN  [ok |-> TRUE, end |-> rest.end,
                      groups |-> <<SubSeq(s, i, j - 1)>> \o rest.groups]

\* re.search(pattern, s)
Search(pattern, s) == \E i \in 1..Len(s) : MatchFrom(s, i, pattern).ok

\* the template with \1 and \2 replaced by the groups
RECURSIVE Expand(_, _)
Expand(template, groups) ==
    IF template = <<>> THEN <<>>
    ELSE (IF Head(template) = "\\1" THEN groups[1]
          ELSE IF Head(template) = "\\2" THEN groups[2]
          ELSE <<Head(template)>>) \o Expand(Tail(template), groups)

\* re.sub(pattern, template, s), from position i on
RECURSIVE Sub(_, _, _, _)
Sub(pattern, template, s, i) ==
    IF i > Len(s) THEN <<>>
    ELSE IF MatchFrom(s, i, pattern).ok
        THEN Expand(template, MatchFrom(s, i, pattern).groups)
                \o Sub(pattern, template, s, MatchFrom(s, i, pattern).end)
        ELSE <<s[i]>> \o Sub(pattern, template, s, i + 1)

\* s.replace(old, new)
RECURSIVE Replace(_, _, _)
Replace(s, old, new) ==
    IF Len(s) < Len(old) THEN s
    ELSE IF SubSeq(s, 1, Len(old)) = old
        THEN new \o Replace(SubSeq(s, Len(old) + 1, Len(s)), old, new)
        ELSE <<Head(s)>> \o Replace(Tail(s), old, new)

\* the first entry of the list whose pattern is found in the text, or 0
FirstPattern(patterns, text_lower) ==
    IF \E p \in 1..Len(patterns) : Search(patterns[p].pattern, text_lower)
        THEN CHOOSE p \in 1..Len(patterns) :
                /\ Search(patterns[p].pattern, text_lower)
                /\ \A q \in 1..(p - 1) : ~Search(patterns[q].pattern, text_lower)
        ELSE 0

\* the first entry of quick_patterns, in the order of the dict, that the text
\* holds, or 0
FirstQuick(text_lower) ==
    IF \E p \in 1..Len(quick_patterns) :
            IsSubstring(quick_patterns[p].persian, text_lower)
        THEN CHOOSE p \in 1..Len(quick_patterns) :
                /\ IsSubstring(quick_patterns[p].persian, text_lower)
                /\ \A q \in 1..(p - 1) :
                        ~IsSubstring(quick_patterns[q].persian, text_lower)
        ELSE 0

NoTranslation == <<>>
Translation(text, target_language) ==
    <<[text |-> text, target_language |-> target_language]>>

\* lines 117-155 of translate_to_english: the string it returns and the
\* translate_text calls it made
translate_steps_llm_first(persian_text, text_lower, response) ==
    [ret |-> translate_text(persian_text, "english", response),
     calls |-> Translation(persian_text, "english")]

translate_steps(persian_text, text_lower, response) ==
    IF FirstQuick(text_lower) # 0
        THEN [ret |-> quick_patterns[FirstQuick(text_lower)].english,
              calls |-> NoTranslation]
    ELSE IF FirstPattern(temp_patterns, text_lower) # 0
        THEN [ret |-> Replace(Replace(
                        Sub(temp_patterns[FirstPattern(temp_patterns,
                                                       text_lower)].pattern,
                            temp_patterns[FirstPattern(temp_patterns,
                                                       text_lower)].template,
                            text_lower, 1),
                        RoomOne, <<"room 1">>), KitchenWord, <<"kitchen">>),
              calls |-> NoTranslation]
    ELSE IF FirstPattern(brightness_patterns, text_lower) # 0
        THEN [ret |-> Replace(Replace(
                        Sub(brightness_patterns[FirstPattern(brightness_patterns,
                                                       text_lower)].pattern,
                            brightness_patterns[FirstPattern(brightness_patterns,
                                                       text_lower)].template,
                            text_lower, 1),
                        KitchenWord, <<"kitchen">>), BathroomWord, <<"bathroom">>),
              calls |-> NoTranslation]
    ELSE [ret |-> translate_text(persian_text, "english", response),
          calls |-> Translation(persian_text, "english")]

\* PersianService.translate_to_english
translate_to_english(persian_text, response) ==
    IF ~is_persian(persian_text)
        THEN [ret |-> persian_text, calls |-> NoTranslation]
        ELSE translate_steps(persian_text,
                             Strip(Lower(ToEnglishDigits(persian_text))),
                             response)

\* PersianService.translate_to_persian
translate_to_persian(english_text, response) ==
    [ret |-> translate_text(english_text, "persian", response),
     calls |-> Translation(english_text, "persian")]

\* PersianService.process_command: (english_command, is_persian) and the
\* translate_text calls made
persian_process_command(cmd, response) ==
    IF is_persian(cmd)
        THEN [english_command |-> translate_to_english(cmd, response).ret,
              is_persian |-> TRUE,
              calls |-> translate_to_english(cmd, response).calls]
        ELSE [english_command |-> cmd, is_persian |-> FALSE,
              calls |-> NoTranslation]

----------------------------------------------------------------------------
(* PersianService called directly (api_server.py and voice_interface.py call *)
(* is_persian on their own).                                                *)

MaxPersianLetters == 3  \* Persian letters at the head of a mixed text
MaxLatinLetters == 7    \* Latin letters behind them

RECURSIVE Repeat(_, _)
Repeat(c, n) == IF n = 0 THEN <<>> ELSE <<c>> \o Repeat(c, n - 1)

\* texts of Persian and Latin letters in every proportion
MixedTexts ==
    {Repeat("U+0633", p) \o Repeat("x", l) :
        p \in 0..MaxPersianLetters, l \in 0..MaxLatinLetters}

LampOnText == <<"l", "a", "m", "p", " ", "o", "n">>
PersianTwentyFive == <<"U+06F2", "U+06F5">>

\* texts without Persian letters or keywords, or with too few of them
OtherTexts ==
    {<<" ", "\t">>, LampOnText, <<"L", "A", "M", "P">>, PersianTwentyFive,
     PersianComma \o <<"o", "k">>, ECircumflex \o <<"t", "e">>,
     AlefIsolated \o <<"x", "y">>,
     LampOnText \o <<" ">> \o persian_words[25],
     Repeat("x", 25) \o <<" ">> \o quick_patterns[28].persian}

\* texts that hold a phrase of quick_patterns
QuickTexts ==
    {quick_patterns[1].persian,
     <<" ", "O", "K", " ">> \o quick_patterns[6].persian \o <<"!", " ">>,
     quick_patterns[14].persian \o And \o quick_patterns[9].persian,
     LampOnText \o <<" ">> \o quick_patterns[28].persian}

\* texts one of the temperature or brightness patterns matches
PatternTexts ==
    {AcSetTo \o PersianTwentyFive \o DegreesSet,
     Ac \o KitchenWord \o SetTo \o <<"2", "2">> \o DegreesSet,
     TemperatureSetTo \o ArabicIndicDigits \o Set,
     LampSetTo \o <<"7", "0">> \o PercentBrightnessSet,
     Lamp \o BathroomWord \o SetTo \o <<"U+06F5", "U+06F0">> \o PercentSet,
     <<"O", "K", " ">> \o LampBrightness \o <<"5">> \o PercentDo}

\* Persian texts that no phrase and no pattern covers
FreeTexts ==
    {Salam, Lamp \o KitchenWord, AcSetTo \o <<"x">> \o DegreesSet}

TextArgs == MixedTexts \cup OtherTexts \cup QuickTexts \cup PatternTexts
                \cup FreeTexts

\* what the chat client answers to a translation request
TranslationResponses ==
    {Raises(TimedOut), Message(None, None),
     Message(PyStr(<<" ", "what time is it", "\n">>), None),
     Message(PyStr(Bashe), None)}

IsPersian(text) ==
    /\ Idle
    /\ apc = "IDLE"
    /\ call' = [op |-> "is_persian", text |-> text]
    /\ ret' = is_persian(text)
    /\ UNCHANGED <<config, threadVars, devices, before, interpVars, assistantVars>>

TranslateToEnglish(persian_text, response) ==
    /\ Idle
    /\ apc = "IDLE"
    /\ call' = [op |-> "translate_to_english", text |-> persian_text,
                response |-> response]
    /\ ret' = translate_to_english(persian_text, response).ret
    /\ translations' = translate_to_english(persian_text, response).calls
    /\ UNCHANGED <<config, threadVars, devices, before, interpVars, user_input,
                   is_persian_input, english_command, stages, final, apc>>

\* the caller takes what the call returned
ReturnTranslation ==
    /\ call # NoCall
    /\ call' = NoCall
    /\ ret' = <<>>
    /\ translations' = NoTranslation
    /\ UNCHANGED <<config, threadVars, devices, before, interpVars, user_input,
                   is_persian_input, english_command, stages, final, apc>>

NextPersian ==
    \/ \E text \in TextArgs : IsPersian(text)
    \/ \E text \in TextArgs, response \in TranslationResponses :
            TranslateToEnglish(text, response)
    \/ ReturnTranslation

SpecPersian == InitKitchen /\ [][NextPersian]_vars

----------------------------------------------------------------------------
(* SmartHomeAssistant.process_command (smart_home/core/assistant.py): the    *)
(* command comes in (ProcessCommand), the interpreter works on its English  *)
(* form (LLMResponds, FollowUpResponds), the reply is translated back where *)
(* the command was Persian (Respond), the caller takes the final text       *)
(* (ReturnFinal).  The except clause of lines 139-145 is not reached:       *)
(* translate_text, _process_english_command and LLMService.process_command  *)
(* each catch every exception themselves.                                   *)

NoCommand == <<ERR, " ", "Please provide a command">>

\* lines 123-129: persian_service.process_command returned p; the English
\* command goes to the interpreter
Normalized(p, svc) ==
    /\ is_persian_input' = p.is_persian
    /\ english_command' = p.english_command
    /\ translations' = p.calls
    /\ stages' = IF p.is_persian
                    THEN <<"is_persian", "translate_to_english",
                           "llm_service.process_command">>
                    ELSE <<"is_persian", "llm_service.process_command">>
    /\ final' = <<>>
    /\ apc' = "INTERPRETING"
    /\ Submit(p.english_command, svc)

\* lines 116-129
ProcessCommand(raw, svc, response) ==
    /\ Idle
    /\ apc = "IDLE"
    /\ user_input' = raw
    /\ IF raw = <<>> \/ Strip(raw) = <<>> THEN
            /\ final' = NoCommand
            /\ apc' = "DONE"
            /\ is_persian_input' = FALSE
            /\ english_command' = <<>>
            /\ translations' = NoTranslation
            /\ stages' = <<>>
            /\ UNCHANGED <<config, threadVars, devices, registryVars, interpVars>>
       ELSE Normalized(persian_process_command(raw, response), svc)

Respond_untranslated(response) ==
    /\ apc = "INTERPRETING"
    /\ pc = "REPLY_READY"
    /\ final' = reply
    /\ apc' = "DONE"
    /\ UNCHANGED <<translations, stages>>
    /\ UNCHANGED <<config, threadVars, devices, registryVars, interpVars, user_input,
                   is_persian_input, english_command>>

\* lines 129-137: the interpreter has returned its reply
Respond(response) ==
    /\ apc = "INTERPRETING"
    /\ pc = "REPLY_READY"
    /\ IF is_persian_input THEN
            /\ final' = translate_to_persian(reply, response).ret
            /\ translations' =
                    translations \o translate_to_persian(reply, response).calls
            /\ stages' = Append(stages, "translate_to_persian")
       ELSE
            /\ final' = reply
            /\ UNCHANGED <<translations, stages>>
    /\ apc' = "DONE"
    /\ UNCHANGED <<config, threadVars, devices, registryVars, interpVars, user_input,
                   is_persian_input, english_command>>

\* the caller takes the final text; the locals of both calls are gone
ReturnFinal ==
    /\ apc = "DONE"
    /\ user_input' = <<>>
    /\ is_persian_input' = FALSE
    /\ english_command' = <<>>
    /\ translations' = NoTranslation
    /\ stages' = <<>>
    /\ final' = <<>>
    /\ apc' = "IDLE"
    /\ IF pc = "REPLY_READY"
            THEN ReturnReply
            ELSE UNCHANGED <<config, threadVars, devices, registryVars, interpVars>>

MaxAssistantTurns == 1  \* turns recorded in a run of SpecAssistant

\* what the chat client answers to the interpreter's requests
AssistantResponses ==
    {Raises(TimedOut),
     Message(PyStr(<<"Hello! How can I help?">>), None),
     Message(None, FunctionCall(<<"get_time">>, <<"{", "}">>)),
     Message(PyStr(Marker(<<"control_device">>, LampOn)), None)}

AssistantFollowUpResponses ==
    {Raises(TimedOut), Message(PyStr(<<"Hello! How can I help?">>), None)}

CommandTexts ==
    {<<>>, <<" ", "\t">>, LampOnText, PersianTwentyFive,
     LampOnText \o <<" ">> \o persian_words[25],
     Repeat("U+0633", 3) \o Repeat("x", 7),
     Repeat("U+0633", 3) \o Repeat("x", 6)}
    \cup QuickTexts \cup PatternTexts \cup FreeTexts

NextAssistant ==
    \/ \E raw \in CommandTexts, response \in TranslationResponses :
            Len(turns) < MaxAssistantTurns
                /\ ProcessCommand(raw, NoServices, response)
    \/ \E response \in AssistantResponses : LLMResponds(response)
    \/ \E response \in AssistantFollowUpResponses : FollowUpResponds(response)
    \/ \E response \in TranslationResponses : Respond(response)
    \/ ReturnFinal

SpecAssistant == InitKitchen /\ [][NextAssistant]_vars

----------------------------------------------------------------------------
(* Two threads in the last lines of process_command (llm_service.py         *)
(* 114-122). The append statement loads the list and then calls append on   *)
(* it; the trim statement builds the slice and then binds the attribute to  *)
(* it. A thread that loaded the list before another thread bound the        *)
(* attribute to a new list appends to the list that is no longer the        *)
(* history.                                                                 *)

MaxSaverTurns == 2      \* calls that reach the save in a run of SpecSavers
StartLengths == {0, 19, 20}

OldTurn(i) == [user |-> NumberedCommand(i), assistant |-> NumberedAnswer(i).s]
OldTurns(n) == [i \in 1..n |-> OldTurn(i)]

\* the calls that have begun to save
Begun == Len(turns) + Cardinality({u \in Threads : tpc[u] = "loaded"})

\* whether another thread stands between the two steps of a statement
Between(t) == \E u \in Threads \ {t} : tpc[u] \in {"loaded", "sliced"}

Step(t) == coarse' = (coarse /\ ~Between(t))

\* line 115: self.conversation_history is loaded
HistoryLoad(t) ==
    /\ tpc[t] = "idle"
    /\ Begun < MaxSaverTurns
    /\ tpc' = [tpc EXCEPT ![t] = "loaded"]
    /\ local' = [local EXCEPT ![t] =
                    [kind |-> "save", turn |-> OldTurn(HistoryCap + Begun + 1),
                     fresh |-> TRUE, slice |-> <<>>]]
    /\ Step(t)
    /\ UNCHANGED <<config, devices, registryVars, interpVars, assistantVars>>

\* lines 115-118: append is called on the list that was loaded
HistoryAppend(t) ==
    /\ tpc[t] = "loaded"
    /\ conversation_history' =
            IF local[t].fresh THEN Append(conversation_history, local[t].turn)
                              ELSE conversation_history
    /\ turns' = Append(turns, local[t].turn)
    /\ tpc' = [tpc EXCEPT ![t] = "appended"]
    /\ Step(t)
    /\ UNCHANGED <<config, devices, registryVars, pc, command, services,
                   messages, requests, executed, reply, responses,
                   history_before, assistantVars, local>>

\* line 121: len(self.conversation_history) > 20
HistoryCheck(t) ==
    /\ tpc[t] = "appended"
    /\ tpc' = [tpc EXCEPT ![t] =
                IF Len(conversation_history) > HistoryCap THEN "trimming"
                                                          ELSE "returned"]
    /\ Step(t)
    /\ UNCHANGED <<config, devices, registryVars, interpVars, assistantVars,
                   local>>

HistorySlice_own_turn_last(t) ==
    /\ tpc[t] = "trimming"
    /\ local' = [local EXCEPT ![t].slice =
                    LastN(SubSeq(conversation_history, 1,
                            IF \E j \in 1..Len(conversation_history) :
                                    conversation_history[j] = local[t].turn
                                THEN CHOOSE j \in 1..Len(conversation_history) :
                                        conversation_history[j] = local[t].turn
                                ELSE Len(conversation_history)),
                          HistoryCap)]
    /\ tpc' = [tpc EXCEPT ![t] = "sliced"]
    /\ Step(t)
    /\ UNCHANGED <<config, devices, registryVars, interpVars, assistantVars>>

\* line 122, right-hand side: self.conversation_history[-20:]
HistorySlice(t) ==
    /\ tpc[t] = "trimming"
    /\ local' = [local EXCEPT ![t].slice =
                    LastN(conversation_history, HistoryCap)]
    /\ tpc' = [tpc EXCEPT ![t] = "sliced"]
    /\ Step(t)
    /\ UNCHANGED <<config, devices, registryVars, interpVars, assistantVars>>

\* line 122, the assignment: the attribute is bound to the new list, and the
\* list the other threads have loaded is the history no more
HistoryAssign(t) ==
    /\ tpc[t] = "sliced"
    /\ conversation_history' = local[t].slice
    /\ local' = [u \in Threads |->
                    IF u # t /\ tpc[u] = "loaded"
                        THEN [local[u] EXCEPT !.fresh = FALSE]
                        ELSE local[u]]
    /\ tpc' = [tpc EXCEPT ![t] = "returned"]
    /\ Step(t)
    /\ UNCHANGED <<config, devices, registryVars, pc, command, services,
                   messages, requests, executed, reply, responses,
                   history_before, turns, assistantVars>>

\* lines 124-125: the call returns its reply
SaverReturn(t) ==
    /\ tpc[t] = "returned"
    /\ tpc' = [tpc EXCEPT ![t] = "idle"]
    /\ local' = [local EXCEPT ![t] = NoLocal]
    /\ Step(t)
    /\ UNCHANGED <<config, devices, registryVars, interpVars, assistantVars>>

InitSavers ==
    /\ config = [lamps |-> <<Kitchen>>, acs |-> <<Kitchen>>, tvs |-> <<>>]
    /\ devices = create_devices(config)
    /\ call = NoCall
    /\ ret = <<>>
    /\ before = devices
    /\ conversation_history \in {OldTurns(n) : n \in StartLengths}
    /\ pc = "AWAITING_COMMAND"
    /\ command = <<>>
    /\ services = [weather_service |-> "none", news_service |-> "none"]
    /\ messages = <<>>
    /\ requests = <<>>
    /\ executed = <<>>
    /\ reply = <<>>
    /\ responses = <<>>
    /\ history_before = <<>>
    /\ turns = <<>>
    /\ user_input = <<>>
    /\ is_persian_input = FALSE
    /\ english_command = <<>>
    /\ translations = <<>>
    /\ stages = <<>>
    /\ final = <<>>
    /\ apc = "IDLE"
    /\ tpc = [t \in Threads |-> "idle"]
    /\ local = [t \in Threads |-> NoLocal]
    /\ coarse = TRUE

NextSavers ==
    \E t \in Threads :
        \/ HistoryLoad(t)
        \/ HistoryAppend(t)
        \/ HistoryCheck(t)
        \/ HistorySlice(t)
        \/ HistoryAssign(t)
        \/ SaverReturn(t)

SpecSavers == InitSavers /\ [][NextSavers]_vars

----------------------------------------------------------------------------
(* Two callers that toggle devices of the one registry (api_server.py       *)
(* 348-366, device_manager.py 112-113). toggle reads the power flag and     *)
(* then calls turn_off or turn_on, which writes it.                         *)

\* the devices with the power flags of the set `on` set
PoweredAs(devs, on) ==
    [id \in DOMAIN devs |-> [devs[id] EXCEPT !.state.power = (id \in on)]]

\* base_device.py line 38: self.state.get("power") is read
ToggleRead(t, id) ==
    /\ tpc[t] = "idle"
    /\ id \in DOMAIN devices
    /\ tpc' = [tpc EXCEPT ![t] = "read"]
    /\ local' = [local EXCEPT ![t] =
                    [kind |-> "toggle", device |-> id,
                     power |-> devices[id].state.power]]
    /\ before' = IF \A u \in Threads : tpc[u] = "idle" THEN devices ELSE before
    /\ UNCHANGED <<config, devices, call, ret, interpVars, assistantVars,
                   coarse>>

\* base_device.py line 38, then lines 18-34: turn_off or turn_on runs, as the
\* flag that was read says
ToggleWrite(t) ==
    /\ tpc[t] = "read"
    /\ devices' = [devices EXCEPT ![local[t].device] =
                    IF local[t].power THEN turn_off(@).dev ELSE turn_on(@).dev]
    /\ tpc' = [tpc EXCEPT ![t] = "returned"]
    /\ UNCHANGED <<config, registryVars, interpVars, assistantVars, local,
                   coarse>>

\* the callers have their answers
TogglersReturn ==
    /\ \A t \in Threads : tpc[t] \in {"idle", "returned"}
    /\ \E t \in Threads : tpc[t] = "returned"
    /\ tpc' = [t \in Threads |-> "idle"]
    /\ local' = [t \in Threads |-> NoLocal]
    /\ devices' = Rebase(devices)
    /\ before' = Rebase(devices)
    /\ UNCHANGED <<config, call, ret, interpVars, assistantVars, coarse>>

InitTogglers ==
    /\ config = [lamps |-> <<Kitchen>>, acs |-> <<Kitchen>>, tvs |-> <<>>]
    /\ devices \in {PoweredAs(create_devices(config), on) :
                        on \in SUBSET DOMAIN create_devices(config)}
    /\ call = NoCall
    /\ ret = <<>>
    /\ before = devices
    /\ conversation_history = <<>>
    /\ pc = "AWAITING_COMMAND"
    /\ command = <<>>
    /\ services = [weather_service |-> "none", news_service |-> "none"]
    /\ messages = <<>>
    /\ requests = <<>>
    /\ executed = <<>>
    /\ reply = <<>>
    /\ responses = <<>>
    /\ history_before = <<>>
    /\ turns = <<>>
    /\ user_input = <<>>
    /\ is_persian_input = FALSE
    /\ english_command = <<>>
    /\ translations = <<>>
    /\ stages = <<>>
    /\ final = <<>>
    /\ apc = "IDLE"
    /\ tpc = [t \in Threads |-> "idle"]
    /\ local = [t \in Threads |-> NoLocal]
    /\ coarse = TRUE

NextTogglers ==
    \/ \E t \in Threads, id \in DOMAIN devices : ToggleRead(t, id)
    \/ \E t \in Threads : ToggleWrite(t)
    \/ TogglersReturn

SpecTogglers == InitTogglers /\ [][NextTogglers]_vars

----------------------------------------------------------------------------
(* Properties of the registry.  They read the call that has just run        *)
(* (call, ret), the devices before it (before) and after it (devices).      *)

\* the latest call was control_device() for one device, and that device exists
SingleDeviceCall ==
    /\ call.op = "control_device"
    /\ call.device_type \in {<<"lamp">>, <<"ac">>, <<"tv">>}
    /\ call.location.t = "str"
    /\ call.location.s # <<>>
    /\ DeviceId(call.location.s, call.device_type) \in DOMAIN before

Target == DeviceId(call.location.s, call.device_type)

\* the device type that has each type-specific action
ActionOwner ==
    [brightness |-> "lamp", color |-> "lamp",
     temperature |-> "ac", mode |-> "ac", fan_speed |-> "ac",
     channel |-> "tv", volume |-> "tv", input |-> "tv"]

\* the range of each numeric attribute
Lo == [brightness |-> 0, temperature |-> 16, channel |-> 1, volume |-> 0]
Hi == [brightness |-> 100, temperature |-> 30, channel |-> 999, volume |-> 100]

\* the allowed values of each enumerated attribute
Allowed ==
    [color |-> {"white", "red", "blue", "green", "yellow", "purple", "orange"},
     mode |-> {"cool", "heat", "fan", "auto", "dry"},
     fan_speed |-> {"low", "medium", "high", "auto"},
     input |-> {"hdmi1", "hdmi2", "hdmi3", "usb", "cable", "antenna",
                "netflix", "youtube"}]

\* the keys each device type is created with
StateKeys ==
    [lamp |-> {"power", "brightness", "color"},
     ac |-> {"power", "temperature", "mode", "fan_speed"},
     tv |-> {"power", "channel", "volume", "input"}]

\* the integers whose decimal strings the callers pass
TestInts == {-5, 0, 5, 22, 35, 101, 1000}

Clamp(v, lo, hi) == IF v < lo THEN lo ELSE IF v > hi THEN hi ELSE v

\* the latest call was a type-specific action on a device of the matching type
TypeSpecificCall ==
    /\ SingleDeviceCall
    /\ Len(call.action) = 1
    /\ call.action[1] \in DOMAIN ActionOwner
    /\ before[Target].device_type = ActionOwner[call.action[1]]

Key == call.action[1]

\* the value of the latest call is the decimal string of the integer v
IsDecimalOf(v) == call.value.t = "str" /\ call.value.s = IntStr(v)

\* the value of the latest call is an allowed value of its enumerated attribute
\* in some letter case, with blanks around it
IsAllowedText ==
    /\ Key \in DOMAIN Allowed
    /\ call.value.t = "str"
    /\ Len(Strip(Lower(call.value.s))) = 1
    /\ Strip(Lower(call.value.s))[1] \in Allowed[Key]

\* the value a well-formed request asks the attribute to take
Requested ==
    IF Key \in DOMAIN Lo
        THEN Clamp(CHOOSE v \in TestInts : IsDecimalOf(v), Lo[Key], Hi[Key])
        ELSE Strip(Lower(call.value.s))

RequestedText == IF Key \in DOMAIN Lo THEN IntStr(Requested) ELSE Requested

\* the latest call passed a value its action accepts
WellFormedValue ==
    \/ Key \in DOMAIN Lo /\ \E v \in TestInts : IsDecimalOf(v)
    \/ IsAllowedText

IsError(s) == StartsWith(s, <<ERR>>)

\* the power gate of C8 without the clause on the status report; the error
\* string begins with the marker as the device's own file spells it
PowerGate ==
    (TypeSpecificCall /\ WellFormedValue) =>
        IF ~before[Target].state.power
            THEN /\ StartsWith(ret, <<ErrorMark(before[Target])>>)
                 /\ Contains(ret, "is off")
                 /\ devices = before
            ELSE /\ ~IsError(ret)
                 /\ ~StartsWith(ret, <<ErrorMark(before[Target])>>)
                 /\ devices[Target].state[Key] = Requested

\* C8 as stated: while the device is off a type-specific action returns an
\* error that says so and stores nothing; on a device that is on the same call
\* succeeds, the state holds the requested value and the status report shows it
C8_StatusAlwaysShowsValue ==
    /\ PowerGate
    /\ (TypeSpecificCall /\ WellFormedValue /\ before[Target].state.power) =>
            IsSubstring(RequestedText, device_get_status(devices[Target]))

\* C8 amended: as C8, except that the status report shows the requested value
\* only while the device is still on; lamp brightness 0 turns the lamp off and
\* its report then reads OFF
C8_PowerGateThenValue ==
    /\ PowerGate
    /\ (TypeSpecificCall /\ WellFormedValue /\ before[Target].state.power) =>
            IF devices[Target].state.power
                THEN IsSubstring(RequestedText, device_get_status(devices[Target]))
                ELSE /\ Key = "brightness"
                     /\ Requested = 0
                     /\ device_get_status(devices[Target])
                            = devices[Target].name \o <<" (">>
                              \o devices[Target].location \o <<"): ", "OFF">>

\* the spec's example: temperature "22" on the kitchen AC, refused while the AC
\* was off, has just succeeded on the AC after it was turned on
C8_Witness ==
    /\ TypeSpecificCall
    /\ Key = "temperature"
    /\ call.value = PyStr(<<"2", "2">>)
    /\ before[Target].state.power
    /\ before[Target].state.temperature # 22
    /\ devices[Target].state.temperature = 22

\* C9: every device's state has exactly the keys of its type, every numeric
\* attribute lies in its range and every enumerated attribute is an allowed value
C9_StateWellFormed ==
    \A id \in DOMAIN devices :
        LET d == devices[id]
        IN  /\ d.device_type \in DOMAIN StateKeys
            /\ DOMAIN d.state = StateKeys[d.device_type]
            /\ d.state.power \in BOOLEAN
            /\ \A k \in DOMAIN d.state \cap DOMAIN Lo :
                    d.state[k] \in Lo[k]..Hi[k]
            /\ \A k \in DOMAIN d.state \cap DOMAIN Allowed :
                    Len(d.state[k]) = 1 /\ d.state[k][1] \in Allowed[k]

\* a call asked for a brightness above the range and the lamp took the maximum
C9_Witness ==
    /\ TypeSpecificCall
    /\ Key = "brightness"
    /\ IsDecimalOf(1000)
    /\ before[Target].state.brightness # 100
    /\ devices[Target].state.brightness = 100

\* C10: on a device that is on, a numeric action with the decimal string of an
\* integer v stores v clamped to the attribute's range; a brightness that
\* clamps to 0 also turns the lamp off
C10_ClampedStore ==
    \A v \in TestInts :
        (/\ TypeSpecificCall
         /\ Key \in DOMAIN Lo
         /\ IsDecimalOf(v)
         /\ before[Target].state.power) =>
            /\ devices[Target].state[Key] = Clamp(v, Lo[Key], Hi[Key])
            /\ (Key = "brightness" /\ Clamp(v, 0, 100) = 0) =>
                    ~devices[Target].state.power

\* a negative brightness was stored as 0 and turned the lamp off
C10_Witness ==
    /\ TypeSpecificCall
    /\ Key = "brightness"
    /\ IsDecimalOf(-5)
    /\ before[Target].state.power
    /\ before[Target].state.brightness # 0
    /\ devices[Target].state.brightness = 0
    /\ ~devices[Target].state.power

----------------------------------------------------------------------------
(* Properties of the group operations.                                      *)

AllDevicesCall == call.op = "control_device" /\ call.device_type = <<"all_devices">>
AllLampsCall == call.op = "control_device" /\ call.device_type = <<"all_lamps">>

\* C11: after control('all_devices', 'off'), which is what shutdown() calls,
\* the power flag of every device is off; for any other action the string
\* returned is the unsupported-action error and no device has changed.
C11_AllDevicesOffOnly ==
    AllDevicesCall =>
        IF call.action = <<"off">>
            THEN /\ \A id \in DOMAIN devices : ~devices[id].state.power
                 /\ DOMAIN devices = DOMAIN before
                 /\ ~IsError(ret)
            ELSE /\ devices = before
                 /\ ret = <<ERR, " ", "Only 'off' action is supported for all devices">>

C11_Witness ==
    /\ AllDevicesCall
    /\ call.action = <<"off">>
    /\ call.location = None
    /\ Cardinality(DOMAIN devices) = 2
    /\ \A id \in DOMAIN before : before[id].state.power
    /\ \A id \in DOMAIN devices : ~devices[id].state.power

\* C12: control('all_lamps', action, value) leaves every lamp as the action
\* applied to that lamp alone leaves it, whatever the other lamps returned, and
\* changes no air conditioner and no television.
C12_AllLampsOnlyLamps ==
    AllLampsCall =>
        \A id \in DOMAIN devices :
            IF before[id].device_type = "lamp"
                THEN devices[id] =
                        execute_device_action(before[id], call.action, call.value).dev
                ELSE devices[id] = before[id]

\* the (location, type) pairs of the configuration
Configured ==
    {<<config.lamps[i], "lamp">> : i \in 1..Len(config.lamps)}
    \cup {<<config.acs[i], "ac">> : i \in 1..Len(config.acs)}
    \cup {<<config.tvs[i], "tv">> : i \in 1..Len(config.tvs)}

\* locations as callers spell them
Spellings ==
    {Kitchen, <<"kitchen">>, <<"KITCHEN">>,
     Room1, <<"room", " ", "1">>, <<"ROOM", " ", "1">>,
     LivingRoom, <<"living", " ", "room">>, <<"Living", " ", "room">>,
     LampRoom, <<"lamp", " ", "room">>, <<"Lamp", " ", "ROOM">>}

\* the spellings of a location that differ from it in letter case only
LetterCases(location) == {v \in Spellings : Lower(v) = Lower(location)}

\* C13: for every configured (location, type) the registry holds one device
\* under the identifier derived from the pair, and it is that device; a lookup
\* of the pair with the location in any letter case finds that identifier; the
\* identifiers are those of the configuration in every state.
C13_OneDevicePerConfiguredPair ==
    /\ DOMAIN devices = {DeviceId(p[1], <<p[2]>>) : p \in Configured}
    /\ Cardinality(DOMAIN devices) = Cardinality(Configured)
    /\ \A p \in Configured :
        /\ devices[DeviceId(p[1], <<p[2]>>)].location = p[1]
        /\ devices[DeviceId(p[1], <<p[2]>>)].device_type = p[2]
        /\ devices[DeviceId(p[1], <<p[2]>>)].device_id = DeviceId(p[1], <<p[2]>>)
        /\ \A v \in LetterCases(p[1]) :
            get_device_by_pattern(devices, <<p[2]>>, v) =
                [found |-> TRUE, id |-> DeviceId(p[1], <<p[2]>>)]

C13_Witness ==
    /\ DeviceId(Room1, <<"lamp">>) \in DOMAIN devices
    /\ call.op = "control_device"
    /\ call.device_type = <<"lamp">>
    /\ call.location = PyStr(<<"ROOM", " ", "1">>)
    /\ devices[DeviceId(Room1, <<"lamp">>)].state.power
    /\ ~before[DeviceId(Room1, <<"lamp">>)].state.power
    /\ Len(turns) = 1
    /\ Cardinality(DOMAIN devices) = 2

\* C14: a control() call that returns no error and leaves a device in another
\* state than it found it in has advanced that device's last_updated.
C14_MutationAdvancesLastUpdated ==
    (call.op = "control_device" /\ ~IsError(ret)) =>
        \A id \in DOMAIN devices :
            devices[id].state # before[id].state
                => devices[id].last_updated > before[id].last_updated

----------------------------------------------------------------------------
(* Properties of process_command.                                           *)

Returned == pc = "REPLY_READY"
KitchenLamp == DeviceId(Kitchen, <<"lamp">>)

\* the content of the response holds "<function="
HoldsMarker(response) ==
    /\ response.kind = "message"
    /\ Truthy(response.content)
    /\ Contains(response.content.s, "<function=")

\* the content holds <function=NAME{JSON}</function>, JSON being valid
WellFormedMarker(response) ==
    /\ HoldsMarker(response)
    /\ HasMatch(response.content.s)
    /\ JsonLoads(FirstMatch(response.content.s).args).ok

\* the response carries a structured call and its content no marker
StructuredCall(response) ==
    /\ response.kind = "message"
    /\ Truthy(response.function_call)
    /\ ~HoldsMarker(response)

\* the call ended in the except clause
Threw ==
    LET last == responses[Len(responses)]
    IN  \/ last.kind = "raise"
        \/ /\ last.kind = "message"
           /\ Len(responses) = 2
           /\ last.content = None
        \/ /\ last.kind = "message"
           /\ Len(responses) = 1
           /\ ~HoldsMarker(last)
           /\ (Truthy(last.function_call) \/ last.content = None)

\* C1: when the content of the response holds a well-formed inline marker,
\* the call that returns has executed the named function with the parsed
\* arguments exactly once, has issued one chat request and no follow-up, and
\* its reply is the function's raw result behind at most an outcome prefix;
\* the spec's kitchen lamp example leaves the kitchen lamp on.
C1_InlineMarkerRunsOnce ==
    (Returned /\ WellFormedMarker(responses[1])) =>
        LET found == FirstMatch(responses[1].content.s)
        IN  /\ Len(executed) = 1
            /\ executed[1].name = Strip(found.name)
            /\ executed[1].args = JsonLoads(found.args)
            /\ Len(requests) = 1
            /\ Len(responses) = 1
            /\ reply \in {executed[1].result,
                          <<OK, " ">> \o executed[1].result,
                          <<PLUG, " ">> \o executed[1].result,
                          <<GEAR, " ">> \o executed[1].result}
            /\ (responses[1].content.s = Marker(<<"control_device">>, LampOn)
                    => /\ devices[KitchenLamp].state.power
                       /\ reply = <<OK, " ">> \o executed[1].result)

C1_Witness ==
    /\ Returned
    /\ responses = <<Message(PyStr(Marker(<<"control_device">>, LampOn)), None)>>
    /\ Len(executed) = 1
    /\ Len(requests) = 1
    /\ devices[KitchenLamp].state.power
    /\ Contains(reply, "turned on")

\* C2 as stated: whenever the response carries a structured call and its
\* content no marker, the call that returns has executed one function, issued
\* one follow-up request, and its reply is the content of the follow-up.
C2_StructuredCallAlwaysRuns ==
    (Returned /\ StructuredCall(responses[1])) =>
        /\ Len(executed) = 1
        /\ Len(requests) = 2
        /\ Len(responses) = 2
        /\ responses[2].kind = "message"
        /\ responses[2].content = PyStr(reply)

\* C2, amended: when the response carries a structured call whose arguments
\* parse as JSON, and its content no marker, the function is executed exactly
\* once and exactly one follow-up request is issued, made of the first
\* request's messages, the call and the function's string result; non-blank
\* content of the follow-up is the reply; get_weather (get_news) with a JSON
\* object for arguments and no collaborator results in the fixed "service not
\* available" string.
C2_ParsedCallRunsOnceThenFollowUp ==
    (/\ pc \in {"FOLLOW_UP_CALL", "REPLY_READY"}
     /\ StructuredCall(responses[1])
     /\ JsonLoads(responses[1].function_call.arguments).ok) =>
        LET function_call == responses[1].function_call
            function_args == JsonLoads(function_call.arguments)
            follow_up == requests[2].messages
        IN  /\ Len(executed) = 1
            /\ executed[1].name = function_call.name
            /\ executed[1].args = function_args
            /\ Len(requests) = 2
            /\ SubSeq(follow_up, 1, Len(follow_up) - 2) = requests[1].messages
            /\ follow_up[Len(follow_up) - 1].function_call = function_call
            /\ follow_up[Len(follow_up)] =
                    [role |-> "function", name |-> function_call.name,
                     content |-> executed[1].result]
            /\ (Returned => Len(responses) = 2)
            /\ (/\ Returned
                /\ responses[2].kind = "message"
                /\ responses[2].content.t = "str"
                /\ Len(Strip(responses[2].content.s)) > 0)
                    => reply = responses[2].content.s
            /\ (/\ function_call.name = <<"get_weather">>
                /\ function_args.dict
                /\ services.weather_service = "none")
                    => executed[1].result =
                            <<ERR, " ", "Weather service not available">>
            /\ (/\ function_call.name = <<"get_news">>
                /\ function_args.dict
                /\ services.news_service = "none")
                    => executed[1].result =
                            <<ERR, " ", "News service not available">>

C2_Witness ==
    /\ Returned
    /\ responses[1] = Message(None, FunctionCall(<<"get_weather">>, <<"{", "}">>))
    /\ services.weather_service = "none"
    /\ Len(requests) = 2
    /\ executed[1].result = <<ERR, " ", "Weather service not available">>
    /\ reply = <<"Hello! How can I help?">>

\* C3: the string a call returns is never empty and never only whitespace,
\* whatever the chat client answered or failed to answer.
C3_ReplyNeverBlank ==
    Returned => Len(Strip(reply)) > 0

C3_Witness ==
    /\ Returned
    /\ responses = <<Message(PyStr(<<" ", "\n">>), None)>>
    /\ reply = BlankFallback

\* C4: the history never holds more than 20 entries, and it is the last 20
\* turns recorded, in the order they were recorded.
C4_HistoryIsLastTwenty ==
    /\ Len(conversation_history) <= 20
    /\ Len(conversation_history) = Min(Len(turns), 20)
    /\ \A i \in 1..Len(conversation_history) :
            conversation_history[i] =
                turns[Len(turns) - Len(conversation_history) + i]

C4_Witness ==
    /\ Returned
    /\ Len(turns) = 22
    /\ Len(conversation_history) = 20
    /\ conversation_history[1].user = NumberedCommand(3)
    /\ conversation_history[20].user = NumberedCommand(22)

\* C5: the first request of a call holds the system prompt, then at most 6
\* messages of prior context, the last 3 turns of the history as a user and an
\* assistant message each, then the command as its last message.
C5_ContextIsLastThreeTurns ==
    requests # <<>> =>
        LET sent == requests[1].messages
        IN  /\ sent[1] = [role |-> "system", content |-> SystemPrompt]
            /\ sent[Len(sent)] = [role |-> "user", content |-> command]
            /\ Len(sent) - 2 <= 6
            /\ \A i \in 1..Min(Len(history_before), 3) :
                LET turn == history_before[Len(history_before) - i + 1]
                IN  /\ sent[Len(sent) - 2 * i].content = turn.user
                    /\ sent[Len(sent) - 2 * i + 1].content = turn.assistant

\* C6 as stated: every call that returns has appended the turn of its command
\* and its reply to the history it found.
C6_TurnAlwaysAppended ==
    Returned =>
        conversation_history =
            LastN(Append(history_before,
                         [user |-> command, assistant |-> reply]), 20)

\* C6, amended: a call that returns without having gone through the except
\* clause has appended the turn of its command and its reply to the history it
\* found (cut to the last 20), also when the reply is an error-prefixed
\* function result; a call that went through the except clause (a request
\* failed, the structured arguments did not parse, the final content was
\* absent) returns the processing-error string and leaves the history as it
\* found it.
C6_TurnAppendedUnlessThrown ==
    Returned =>
        IF Threw
            THEN /\ conversation_history = history_before
                 /\ StartsWith(reply, <<ERR, " ", "Error processing command: ">>)
            ELSE conversation_history =
                    LastN(Append(history_before,
                                 [user |-> command, assistant |-> reply]), 20)

C6_Witness ==
    /\ Returned
    /\ ~Threw
    /\ history_before # <<>>
    /\ StartsWith(reply, <<ERR>>)
    /\ Len(conversation_history) = Len(history_before) + 1
    /\ conversation_history[Len(conversation_history)] =
            [user |-> command, assistant |-> reply]

\* C7: a call whose first or follow-up request failed returns a string that
\* begins with the error marker and holds the exception text; so does a call
\* whose structured arguments are not valid JSON, and that call has executed
\* no function and issued no follow-up request.
C7_FailuresBecomeErrorReplies ==
    Returned =>
        /\ \A i \in 1..Len(responses) :
            responses[i].kind = "raise" =>
                /\ StartsWith(reply, <<ERR>>)
                /\ IsSubstring(responses[i].text, reply)
        /\ (/\ StructuredCall(responses[1])
            /\ ~JsonLoads(responses[1].function_call.arguments).ok) =>
                /\ StartsWith(reply, <<ERR>>)
                /\ IsSubstring(JSONDecodeError, reply)
                /\ executed = <<>>
                /\ Len(requests) = 1

C7_Witness ==
    /\ Returned
    /\ Len(responses) = 2
    /\ responses[2] = Raises(TimedOut)
    /\ Len(executed) = 1
    /\ reply = <<ERR, " ", "Error processing command: ">> \o TimedOut

\* the response that held the final reply of the call: the first one when it
\* is a direct reply, the follow-up's after a structured call
GaveFinalReply ==
    /\ Returned
    /\ responses[Len(responses)].kind = "message"
    /\ \/ Len(responses) = 2
       \/ /\ ~HoldsMarker(responses[1])
          /\ ~Truthy(responses[1].function_call)

\* a final reply that is absent, empty or only whitespace
IsBlankContent(content) ==
    \/ content = None
    \/ content.t = "str" /\ Strip(content.s) = <<>>

\* C18: when the final reply of the chat client (the direct content, or the
\* content of the follow-up after a structured call) is absent, empty or only
\* whitespace, the call returns one of the two fallback sentences, not an
\* error-prefixed string, and the history ends with the turn of the command
\* and that sentence.
C18_BlankFinalReplyBecomesFallback ==
    (GaveFinalReply /\ IsBlankContent(responses[Len(responses)].content)) =>
        /\ reply \in {EmptyFallback, BlankFallback}
        /\ ~StartsWith(reply, <<ERR>>)
        /\ conversation_history # <<>>
        /\ conversation_history[Len(conversation_history)] =
                [user |-> command, assistant |-> reply]

\* the response carries both the inline marker and a structured call
MarkerAndStructuredCall(response) ==
    HoldsMarker(response) /\ Truthy(response.function_call)

\* C19: the inline marker is looked for first, the structured call second,
\* the direct reply last.  A response with both the marker in its content and
\* a structured call runs only the function the text names: one chat request,
\* no follow-up, and the structured call is not among the executed functions.
\* A response with a structured call and plain content runs the structured
\* call and sends the follow-up, and the reply is not that content.
C19_MarkerBeforeStructuredBeforeDirect ==
    Returned =>
        /\ MarkerAndStructuredCall(responses[1]) =>
            /\ Len(requests) = 1
            /\ Len(responses) = 1
            /\ Len(executed) <= 1
            /\ WellFormedMarker(responses[1]) =>
                /\ Len(executed) = 1
                /\ executed[1].name =
                        Strip(FirstMatch(responses[1].content.s).name)
                /\ executed[1].args =
                        JsonLoads(FirstMatch(responses[1].content.s).args)
            /\ \A i \in 1..Len(executed) :
                    executed[i].name # responses[1].function_call.name
        /\ (/\ StructuredCall(responses[1])
            /\ JsonLoads(responses[1].function_call.arguments).ok) =>
                /\ Len(executed) = 1
                /\ executed[1].name = responses[1].function_call.name
                /\ Len(requests) = 2
                /\ Len(responses) = 2

C19_Witness ==
    /\ Returned
    /\ responses = <<Message(PyStr(Marker(<<"control_device">>, LampOn)),
                             FunctionCall(<<"get_time">>, <<"{", "}">>))>>
    /\ Len(executed) = 1
    /\ executed[1].name = <<"control_device">>
    /\ Len(requests) = 1
    /\ devices[KitchenLamp].state.power
    /\ ~before[KitchenLamp].state.power

\* the content holds "<function=" and the pattern does not match it, or the
\* arguments it matched are not valid JSON
BrokenMarker(response) ==
    /\ HoldsMarker(response)
    /\ \/ ~HasMatch(response.content.s)
       \/ ~JsonLoads(FirstMatch(response.content.s).args).ok

CouldNotExecute ==
    <<"I understood your request but couldn't execute it properly.">>
CouldNotParse ==
    <<"I understood your request but couldn't parse the parameters properly.">>

\* C20: when the content holds "<function=" and the pattern does not match
\* (nested braces, no argument object) the call returns the sentence "...
\* couldn't execute it properly."; when the matched arguments are not valid
\* JSON it returns "... couldn't parse the parameters properly.".  Either way
\* the reply is no error string, no function has run, one request was sent
\* and every device is as the call found it.
C20_BrokenMarkerRunsNothing ==
    (Returned /\ BrokenMarker(responses[1])) =>
        /\ reply = IF HasMatch(responses[1].content.s)
                        THEN CouldNotParse ELSE CouldNotExecute
        /\ ~StartsWith(reply, <<ERR>>)
        /\ executed = <<>>
        /\ Len(requests) = 1
        /\ devices = before

C20_Witness ==
    /\ Returned
    /\ responses = <<Message(PyStr(<<"<function=", "control_device", "{",
                                      LampOn, ",", "{", "}", "}",
                                      "</function>">>), None)>>
    /\ reply = CouldNotExecute
    /\ executed = <<>>
    /\ ~devices[KitchenLamp].state.power

----------------------------------------------------------------------------
(* Properties of PersianService and of SmartHomeAssistant.process_command.  *)

PersianLetters(text) ==
    Cardinality({i \in 1..Len(text) :
                    isalpha(text[i]) /\ InPersianRanges(text[i])})
AlphabeticLetters(text) ==
    Cardinality({i \in 1..Len(text) : isalpha(text[i])})
HoldsKeyword(text) ==
    \E w \in 1..Len(persian_words) : IsSubstring(persian_words[w], text)
IsBlankText(text) == \A i \in 1..Len(text) : text[i] \in Whitespace

\* C16: is_persian(text) is true exactly when the text is not empty or only
\* whitespace and either more than 30% of its alphabetic characters lie in
\* the three script ranges (10 * persian > 3 * alphabetic) or the text holds
\* one of the keywords; it always returns a boolean.
C16_IsPersianIsRatioOrKeyword ==
    call.op = "is_persian" =>
        /\ ret \in BOOLEAN
        /\ ret = (/\ ~IsBlankText(call.text)
                  /\ \/ 10 * PersianLetters(call.text)
                            > 3 * AlphabeticLetters(call.text)
                     \/ HoldsKeyword(call.text))

C16_Witness ==
    /\ call.op = "is_persian"
    /\ call.text = LampOnText \o <<" ">> \o persian_words[25]
    /\ 10 * PersianLetters(call.text) <= 3 * AlphabeticLetters(call.text)
    /\ ret = TRUE

\* the text as the steps of the normalizer see it
Normal(text) == Strip(Lower(ToEnglishDigits(text)))

HoldsPhrase(text) ==
    \E p \in 1..Len(quick_patterns) :
        IsSubstring(quick_patterns[p].persian, text)
PatternFound(text) ==
    \/ \E p \in 1..Len(temp_patterns) :
            Search(temp_patterns[p].pattern, Normal(text))
    \/ \E p \in 1..Len(brightness_patterns) :
            Search(brightness_patterns[p].pattern, Normal(text))

\* C15: translate_to_english, given a text that is_persian classifies as
\* Persian, returns the English text of the first dictionary phrase the text
\* holds without calling translate_text; it calls translate_text exactly
\* once, with the text it was given and "english", when the text holds no
\* dictionary phrase and matches no temperature or brightness pattern, and
\* never otherwise.
C15_FirstMatchWins ==
    call.op = "translate_to_english" =>
        /\ (is_persian(call.text) /\ HoldsPhrase(call.text)) =>
            /\ translations = NoTranslation
            /\ \E p \in 1..Len(quick_patterns) :
                /\ ret = quick_patterns[p].english
                /\ IsSubstring(quick_patterns[p].persian, call.text)
                /\ \A q \in 1..(p - 1) :
                        ~IsSubstring(quick_patterns[q].persian, call.text)
        /\ (/\ is_persian(call.text)
            /\ ~HoldsPhrase(call.text)
            /\ ~PatternFound(call.text)) =>
                /\ translations = Translation(call.text, "english")
                /\ ret = translate_text(call.text, "english", call.response)
        /\ translations # NoTranslation =>
                /\ Len(translations) = 1
                /\ is_persian(call.text)
                /\ ~HoldsPhrase(call.text)
                /\ ~PatternFound(call.text)

C15_Witness ==
    /\ call.op = "translate_to_english"
    /\ call.text = quick_patterns[14].persian \o And \o quick_patterns[9].persian
    /\ ret = <<"turn on the AC">>
    /\ translations = NoTranslation

----------------------------------------------------------------------------
(* Properties of _execute_function.                                         *)

\* the closed set of functions
FunctionNames ==
    {<<"control_device">>, <<"get_weather">>, <<"get_news">>, <<"get_time">>,
     <<"get_device_status">>}

\* the arguments are a JSON object without device_type or action, or with a
\* name control_device() does not take
BadControlArgs(args) ==
    /\ args.dict
    /\ \/ ~({"device_type", "action"} \subseteq DOMAIN args.val)
       \/ ~(DOMAIN args.val \subseteq {"device_type", "action", "location",
                                       "value"})

\* C21: a function whose name is not one of the five returns the error string
\* that names it; control_device without device_type or action, or with an
\* argument name the registry does not take, returns an error string; in both
\* cases the function returned (nothing was raised) and every device is as the
\* call found it.
C21_BadCallsReturnErrors ==
    \A i \in 1..Len(executed) :
        /\ executed[i].name \notin FunctionNames =>
            /\ executed[i].result =
                    <<ERR, " ", "Unknown function: ">> \o executed[i].name
            /\ devices = before
        /\ (/\ executed[i].name = <<"control_device">>
            /\ BadControlArgs(executed[i].args)) =>
                /\ IsError(executed[i].result)
                /\ devices = before

C21_Witness ==
    /\ Returned
    /\ responses[1] =
        Message(None, FunctionCall(<<"control_device">>,
            <<"{", "\"device_type\":\"lamp\",\"action\":\"on\",\"room\":\"kitchen\"",
              "}">>))
    /\ Len(executed) = 1
    /\ IsError(executed[1].result)
    /\ Contains(executed[1].result, "Error executing ")
    /\ ~devices[KitchenLamp].state.power

----------------------------------------------------------------------------
(* Errors of a call for one device.                                         *)

\* the latest call named one device type rather than a group
OneDeviceCall ==
    /\ call.op = "control_device"
    /\ call.device_type \notin {<<"all_lamps">>, <<"all_devices">>}

\* the text is an optional sign and digits, with blanks around them
IsIntegerLiteral(s) ==
    LET t == Strip(s)
        body == IF t # <<>> /\ Head(t) \in {"-", "+"} THEN Tail(t) ELSE t
    IN  body # <<>> /\ \A i \in 1..Len(body) : IsDigit(body[i])

\* the action of the latest call is no power action and no action of the
\* target's own type
ForeignAction ==
    /\ SingleDeviceCall
    /\ call.action \notin PowerActions
    /\ ~TypeSpecificCall

\* C22: a call for one device returns an error string (and so raises nothing)
\* when the location is None or empty, when no device has the location and
\* type, when the action belongs to another device type or to none, when the
\* value of a type-specific action is left out, and when the value of a numeric
\* action is no integer literal.
C22_SingleDeviceErrors ==
    OneDeviceCall =>
        /\ ~Truthy(call.location) =>
            ret = <<ERR, " ", "Please specify the location for the device">>
        /\ (/\ call.location.t = "str"
            /\ call.location.s # <<>>
            /\ DeviceId(call.location.s, call.device_type) \notin DOMAIN before) =>
                /\ IsError(ret)
                /\ Contains(ret, "Device not found: ")
        /\ ForeignAction =>
            /\ IsError(ret)
            /\ Contains(ret, "' not supported for ")
        /\ (TypeSpecificCall /\ call.value \in {None, PyStr(<<>>)}) =>
            /\ IsError(ret)
            /\ \E i \in 1..Len(ret) :
                    ret[i] \in {"Please specify brightness level (0-100)",
                                "Please specify a color",
                                "Please specify temperature (16-30C)",
                                "Please specify mode",
                                "Please specify fan speed",
                                "Please specify channel number",
                                "Please specify volume level",
                                "Please specify input"}
        /\ (/\ TypeSpecificCall
            /\ call.action \in NumericActions
            /\ call.value.t = "str"
            /\ call.value.s # <<>>
            /\ ~IsIntegerLiteral(call.value.s)) =>
                /\ IsError(ret)
                /\ Contains(ret, "Invalid value '")

C22_Witness ==
    /\ TypeSpecificCall
    /\ call.action = <<"temperature">>
    /\ call.value = PyStr(<<"2", "2", ".", "5">>)
    /\ before[Target].state.power
    /\ IsError(ret)
    /\ devices = before

----------------------------------------------------------------------------
(* Enumerated attributes.                                                   *)

\* the latest call set an enumerated attribute of a device that was on, with a
\* non-empty text as the value
EnumeratedCall ==
    /\ TypeSpecificCall
    /\ Key \in DOMAIN Allowed
    /\ call.value.t = "str"
    /\ call.value.s # <<>>
    /\ before[Target].state.power

\* the string is an error that lists every allowed value of the attribute
ListsAllowed(s, key) ==
    /\ \E i \in 1..Len(s) :
            s[i] \in {"Invalid color. Available: ", "Invalid mode. Available: ",
                      "Invalid fan speed. Available: ",
                      "Invalid input. Available: "}
    /\ \A a \in Allowed[key] : Contains(s, a)

\* C23: on a device that is on, a color, mode, fan speed or input is accepted
\* exactly when its lower-cased, trimmed form is an allowed value, and that
\* form is what the state then holds; any other value returns an error that
\* lists the allowed values and the state keeps the value it had.
C23_EnumeratedValuesNormalized ==
    EnumeratedCall =>
        IF IsAllowedText
            THEN /\ ~StartsWith(ret, <<ErrorMark(before[Target])>>)
                 /\ devices[Target].state[Key] = Strip(Lower(call.value.s))
            ELSE /\ StartsWith(ret, <<ErrorMark(before[Target])>>)
                 /\ ListsAllowed(ret, Key)
                 /\ devices = before

C23_Witness ==
    /\ EnumeratedCall
    /\ call.action = <<"color">>
    /\ call.value = PyStr(<<" ", "RED", " ">>)
    /\ before[Target].state.color = <<"white">>
    /\ devices[Target].state.color = <<"red">>

C23_WitnessRejected ==
    /\ EnumeratedCall
    /\ call.action = <<"mode">>
    /\ call.value = PyStr(<<"turbo">>)
    /\ ListsAllowed(ret, "mode")
    /\ devices = before

----------------------------------------------------------------------------
(* Failing translations.                                                    *)

\* the translation request raised, or its answer carried no text
TranslationFails(response) ==
    \/ response.kind = "raise"
    \/ response.content.t # "str"

\* a command whose translation to English fails reaches the interpreter as it
\* was typed
NormalizePassesThrough(raw, response) ==
    (ProcessCommand(raw, NoServices, response)
        /\ translations' = Translation(raw, "english")) =>
            /\ is_persian_input'
            /\ english_command' = raw
            /\ apc' = "INTERPRETING"
            /\ pc' = "CALLING_LLM"

\* a reply whose translation to Persian fails is returned in English
ToPersianPassesThrough(response) ==
    (Respond(response) /\ is_persian_input) =>
        /\ final' = reply
        /\ final' # <<>>
        /\ apc' = "DONE"

\* C24: when the translation request fails, translate_to_english returns the
\* Persian text it was given and translate_to_persian returns the English
\* text it was given; neither raises, and process_command goes on to return a
\* reply.
C24_FailedTranslationPassesThrough ==
    [][\A response \in TranslationResponses :
            TranslationFails(response) =>
                /\ \A raw \in CommandTexts :
                        NormalizePassesThrough(raw, response)
                /\ ToPersianPassesThrough(response)]_vars

C24_Witness ==
    /\ apc = "DONE"
    /\ is_persian_input
    /\ user_input = Salam
    /\ english_command = user_input
    /\ translations = Translation(user_input, "english")
                        \o Translation(reply, "persian")
    /\ final = reply
    /\ reply = <<"Hello! How can I help?">>

----------------------------------------------------------------------------
(* Termination of process_command.                                          *)

\* a request that raised was the last one of its call
NoReissue ==
    \A i \in 1..Len(responses) :
        responses[i].kind = "raise" =>
            /\ i = Len(responses)
            /\ Len(requests) = i
            /\ pc = "REPLY_READY"

\* C25: every call of process_command reaches its return with a reply,
\* whatever the chat client answers; a call sends at most two chat requests
\* and executes at most one function, and a request that raised is not sent
\* again.
C25_CallTerminates ==
    /\ (pc = "CALLING_LLM") ~> (pc = "REPLY_READY")
    /\ (pc = "FOLLOW_UP_CALL") ~> (pc = "REPLY_READY")
    /\ [](Len(requests) <= 2 /\ Len(executed) <= 1 /\ NoReissue)

C25_Witness ==
    /\ pc = "REPLY_READY"
    /\ Len(requests) = 2
    /\ Len(executed) = 1
    /\ Len(responses) = 2
    /\ responses[2].kind = "raise"
    /\ IsError(reply)

----------------------------------------------------------------------------
(* Power actions on one device.                                             *)

\* the latest call was on, off or toggle for one device
PowerCall == SingleDeviceCall /\ call.action \in PowerActions

\* the power flag the action of the latest call asks for
PowerAfter ==
    CASE call.action = <<"on">> -> TRUE
      [] call.action = <<"off">> -> FALSE
      [] call.action = <<"toggle">> -> ~before[Target].state.power

\* C26: on, off and toggle change the power flag of their device and nothing
\* else in its state map (on makes it true, off false, toggle its negation);
\* every other device is as it was; toggling a device twice gives back the
\* state map it had.
C26_PowerActionsChangeOnlyPower ==
    /\ PowerCall =>
        /\ devices[Target].state =
                [before[Target].state EXCEPT !.power = PowerAfter]
        /\ [devices[Target] EXCEPT !.last_updated = 0] =
                [before[Target] EXCEPT !.state.power = PowerAfter,
                                       !.last_updated = 0]
        /\ \A id \in DOMAIN before \ {Target} : devices[id] = before[id]
        /\ DOMAIN devices = DOMAIN before
        /\ ~IsError(ret)
    /\ \A id \in DOMAIN devices :
        /\ toggle(toggle(devices[id]).dev).dev.state = devices[id].state
        /\ toggle(devices[id]).dev.state.power = ~devices[id].state.power

C26_Witness ==
    /\ PowerCall
    /\ call.action = <<"toggle">>
    /\ before[Target].device_type = "lamp"
    /\ before[Target].state.power
    /\ before[Target].state.color = <<"red">>
    /\ ~devices[Target].state.power
    /\ devices[Target].state.color = <<"red">>

----------------------------------------------------------------------------
(* Brightness of a lamp that is on.                                         *)

\* C27: a lamp whose power is on has a brightness between 1 and 100.
C27_LitLampHasBrightness ==
    \A id \in DOMAIN devices :
        (devices[id].device_type = "lamp" /\ devices[id].state.power) =>
            devices[id].state.brightness \in 1..100

----------------------------------------------------------------------------
(* Calls that fail, and status queries.                                     *)

\* C28: a control_device call whose returned string begins with the error
\* marker, and every get_status call, leaves every device as it was.
C28_ErrorsAndStatusChangeNothing ==
    /\ (call.op = "control_device" /\ IsError(ret)) => devices = before
    /\ call.op = "get_status" => devices = before

C28_Witness ==
    /\ TypeSpecificCall
    /\ call.action = <<"color">>
    /\ call.value = PyStr(<<"pink">>)
    /\ before[Target].state.power
    /\ IsError(ret)
    /\ devices[Target].state.color = <<"red">>

C28_WitnessStatus ==
    /\ call.op = "get_status"
    /\ \E id \in DOMAIN devices : devices[id].state.power
    /\ ret # <<>>

----------------------------------------------------------------------------
(* Concurrent saves of the history.                                         *)

AllReturned == \A t \in Threads : tpc[t] \in {"idle", "returned"}

\* the history is within its cap and holds every turn the calls recorded
SavedTurnsKept ==
    /\ Len(conversation_history) <= HistoryCap
    /\ \A i \in 1..Len(turns) :
            \E j \in 1..Len(conversation_history) :
                conversation_history[j] = turns[i]

\* C29: when the calls interleave between the append, the length check and
\* the trim assignment, each taken as one step, then once all have returned
\* the history has at most 20 entries and holds the turn of every call.
C29_InterleavedSavesKeepTurns ==
    (AllReturned /\ coarse) => SavedTurnsKept

\* the same without the premise on the interleaving: a thread that runs
\* between another's slice and its assignment, or between its load and its
\* append, can lose a turn
SavesKeepTurnsAtAnyGrain == AllReturned => SavedTurnsKept

C29_Witness ==
    /\ \A t \in Threads : tpc[t] = "returned"
    /\ coarse
    /\ Len(turns) = 2
    /\ local[1].turn = turns[1]
    /\ \E j \in 1..Len(local[1].slice) : local[1].slice[j] = turns[2]
    /\ local[2].slice # <<>>
    /\ Len(conversation_history) = HistoryCap

----------------------------------------------------------------------------
(* Concurrent toggles.                                                      *)

\* every thread has toggled the device and returned
AllToggled(id) ==
    \A t \in Threads : tpc[t] = "returned" /\ local[t].device = id

\* C30: two toggles of one device that run concurrently, each reading the
\* power flag and then writing its negation, leave the flag as it was before
\* both.
C30_ConcurrentTogglesRestorePower ==
    \A id \in DOMAIN devices :
        AllToggled(id) => devices[id].state.power = before[id].state.power

=============================================================================
